---- MODULE Spec2Model ----
(***************************************************************************)
(* picoclaw: the failover router (package failover, Manager) and the turn  *)
(* orchestrator (package agent, AgentLoop).                                *)
(*                                                                         *)
(* Strings that the code trims, lower-cases or compares (model names,      *)
(* message contents) are sequences of one-character strings.  Times are    *)
(* seconds; ZeroTime is Go's zero time.Time.  fs holds the fields of        *)
(* FailoverState that the manager reads; DegradedAt, LastProbeAt and       *)
(* LastSwitchbackProbe are only written and are left out.                  *)
(***************************************************************************)
EXTENDS Integers, Sequences, FiniteSets, TLC

VARIABLES
    cfg,          \* config.Config: Agents.Failover and Agents.Defaults.MaxToolIterations
    fallbacks,    \* Manager.fallbacks
    fs,           \* Manager.fs (state.FailoverState)
    persisted,    \* the FailoverState held by state.Manager
    now,          \* the wall clock read by time.Now()
    probeRunning, \* AgentLoop.probeRunning
    probe,        \* the probe goroutine of maybeRunFailoverProbe
    lastOp,       \* the operation that made the last step, with what it returned
    rlStreak,     \* rate-limit events in a row since the router was Normal on the primary
    probeStreak,  \* successful probe results in a row since the last failed one
    cycleStreak,  \* the same, counted since the last rate-limit switch as well
    prompts,      \* when the last two switchback prompts of this failover cycle were produced
    inbound,      \* the bus's queue of inbound messages
    arrived,      \* how many messages were published to the bus
    run,          \* AgentLoop.Run: where the loop is
    turn,         \* the turn Run is processing (runLLMIteration's locals)
    activeCancel, \* AgentLoop.activeCancel: the sessions with a registered cancel func
    ctxDone,      \* Run's ctx is cancelled
    outbound,     \* what was published to the bus's outbound side
    lastNoticeByEP, \* AgentLoop.lastNoticeByEP
    callers,      \* the turns that run beside Run (ProcessDirect, ProcessHeartbeat)
    notices       \* the switch epochs for which a notification was published, in order

routerVars == <<cfg, fallbacks, fs, persisted, now, probeRunning, probe,
                lastOp, rlStreak, probeStreak, cycleStreak, prompts>>
turnVars == <<inbound, arrived, run, turn, activeCancel, ctxDone, outbound,
              lastNoticeByEP, callers, notices>>
vars == <<routerVars, turnVars>>

-----------------------------------------------------------------------------
(* Bounds *)

MaxThreshold == 2  \* the largest configured probe_success_threshold
MaxEpoch == 3      \* switches of one run
MaxTime == 125     \* the clock stops here
MaxIterations == 2 \* the largest configured max_tool_iterations
MaxInbound == 2    \* messages published to the bus in one run
MaxTools == 2      \* tool calls of one backend response

(* Program constants *)

Second == 1
Minute == 60
ZeroTime == 0
StartTime == 1
NoIndex == 0 - 1

modeNormal == "normal"
modeDegraded == "degraded"
modeAwaitingUserSwitchbk == "awaiting_user_switchback"

-----------------------------------------------------------------------------
(* Strings *)

Str0 == <<>>
M0 == <<"M", "0">>
M1 == <<"M", "1">>
M2 == <<"M", "2">>
M1Padded == <<" ", "M", "1", " ">>

UpperChars == <<"A","B","C","D","E","F","G","H","I","J","K","L","M",
                "N","O","P","Q","R","S","T","U","V","W","X","Y","Z">>
LowerChars == <<"a","b","c","d","e","f","g","h","i","j","k","l","m",
                "n","o","p","q","r","s","t","u","v","w","x","y","z">>
SpaceChars == {" ", "\t", "\n", "\r"}

ToLowerChar(c) ==
    IF \E i \in 1..Len(UpperChars) : UpperChars[i] = c
    THEN LowerChars[CHOOSE i \in 1..Len(UpperChars) : UpperChars[i] = c]
    ELSE c

ToLower(s) == [i \in 1..Len(s) |-> ToLowerChar(s[i])]

RECURSIVE TrimLeft(_)
TrimLeft(s) ==
    IF Len(s) > 0 /\ Head(s) \in SpaceChars THEN TrimLeft(Tail(s)) ELSE s

RECURSIVE TrimRight(_)
TrimRight(s) ==
    IF Len(s) > 0 /\ Head(SubSeq(s, Len(s), Len(s))) \in SpaceChars
    THEN TrimRight(SubSeq(s, 1, Len(s) - 1))
    ELSE s

TrimSpace(s) == TrimRight(TrimLeft(s))

maxInt(a, b) == IF a > b THEN a ELSE b

-----------------------------------------------------------------------------
(* Time *)

Before(a, b) == a < b
After(a, b) == a > b
IsZero(t) == t = ZeroTime

-----------------------------------------------------------------------------
(* Configuration *)

primary == M0


RECURSIVE normalizeLoop(_, _, _)
normalizeLoop(prim, chain, result) ==
    IF chain = <<>> THEN result
    ELSE LET model == TrimSpace(Head(chain))
         IN IF model = Str0 \/ model = prim
               \/ (\E i \in 1..Len(result) : result[i] = model)
            THEN normalizeLoop(prim, Tail(chain), result)
            ELSE normalizeLoop(prim, Tail(chain), Append(result, model))

normalizeFallbackChain(prim, chain, single) ==
    LET c == IF Len(chain) = 0 /\ TrimSpace(single) # Str0 THEN <<single>> ELSE chain
    IN normalizeLoop(prim, c, <<>>)

\* The configured fallback_models lists and fallback_model values.
RawChains == {<<>>, <<M1Padded>>, <<M0, M1, Str0, M1Padded, M2>>}
RawSingles == {Str0, M1}
MaxChain == 2

Configs(iterations) ==
    [MaxToolIterations : iterations,
     Enabled : {TRUE},
     HoldMinutes : {0},
     ProbeIntervalMinutes : {1},
     ProbeSuccessThreshold : {0, MaxThreshold},
     ProbeFailureBackoffMinutes : {1},
     SwitchbackRequiresApproval : BOOLEAN,
     SwitchbackPromptCooldownMins : {1},
     NotifyOnSwitch : {TRUE}]

holdDur == maxInt(cfg.HoldMinutes, 1) * Minute
intervalDur == maxInt(cfg.ProbeIntervalMinutes, 1) * Minute
backoffDur == maxInt(cfg.ProbeFailureBackoffMinutes, 1) * Minute
cooldownDur == maxInt(cfg.SwitchbackPromptCooldownMins, 1) * Minute
threshold == maxInt(cfg.ProbeSuccessThreshold, 1)

-----------------------------------------------------------------------------
(* Errors of a backend call.  A hint field holds the number its string     *)
(* parses to, NoHint for the empty string.                                 *)

NoHint == 0 - 1
NilErr == [isRL |-> FALSE, msg |-> "", RetryAfter |-> NoHint,
           RateLimitRequestsReset |-> NoHint, RateLimitTokensReset |-> NoHint]
RateLimitErr(ra, rr, tr) ==
    [isRL |-> TRUE, msg |-> "rate limited", RetryAfter |-> ra,
     RateLimitRequestsReset |-> rr, RateLimitTokensReset |-> tr]

HintSeconds == 90
RateLimitErrs == {RateLimitErr(NoHint, NoHint, NoHint),
                  RateLimitErr(HintSeconds, NoHint, NoHint)}
ProbeErrs == {NilErr, RateLimitErr(NoHint, NoHint, NoHint)}

\* Rate-limit errors with hints on either side of the configured hold: a
\* Retry-After shorter than the hold, and reset times given as Unix seconds.
ShortHintSeconds == 30
ResetAt == 100
HintErrs ==
    RateLimitErrs \cup {RateLimitErr(ShortHintSeconds, NoHint, NoHint),
                        RateLimitErr(NoHint, ResetAt, NoHint),
                        RateLimitErr(ShortHintSeconds, NoHint, ResetAt),
                        RateLimitErr(HintSeconds, ResetAt, ResetAt + 1)}

SetMax(S) == CHOOSE x \in S : \A y \in S : y <= x

nextProbeFromRateLimitHints(t, rl) ==
    LET raws == <<rl.RetryAfter, rl.RateLimitRequestsReset, rl.RateLimitTokensReset>>
        candidates == {IF raws[i] = rl.RetryAfter THEN t + raws[i] * Second ELSE raws[i]
                        : i \in {j \in 1..3 : raws[j] # NoHint}}
    IN IF candidates = {} THEN ZeroTime ELSE SetMax(candidates)

-----------------------------------------------------------------------------
(* Manager *)

ZeroState ==
    [Mode |-> "", PrimaryModel |-> Str0, ActiveModel |-> Str0, FallbackIndex |-> 0,
     HoldUntil |-> ZeroTime, NextProbeAt |-> ZeroTime,
     ConsecutiveProbeSuccesses |-> 0, SwitchEpoch |-> 0,
     LastSwitchReason |-> "", LastSwitchbackPromptAt |-> ZeroTime,
     LastRateLimitError |-> ""]

\* state.Manager: SetFailoverState replaces the stored record by f and
\* GetFailoverState returns the stored record.
SetFailoverState(f) == f

GetFailoverState == persisted

\* The write is lost and the stored record stays as it was.
persistLockedLost(f) == persisted

\* persistLocked: what the state manager holds after it.
persistLocked(f) == SetFailoverState(f)

\* A stored fallback index of 0 is taken for an unset one, whatever model is active.
NewManagerUnsetsIndex(stored) ==
    LET f1 == IF stored.Mode = "" THEN [stored EXCEPT !.Mode = modeNormal] ELSE stored
        f2 == IF f1.PrimaryModel = Str0 THEN [f1 EXCEPT !.PrimaryModel = primary] ELSE f1
        f3 == IF f2.ActiveModel = Str0 THEN [f2 EXCEPT !.ActiveModel = primary] ELSE f2
    IN IF f3.FallbackIndex = 0
       THEN [f3 EXCEPT !.FallbackIndex = NoIndex]
       ELSE f3

NewManager(stored) ==
    LET f1 == IF stored.Mode = "" THEN [stored EXCEPT !.Mode = modeNormal] ELSE stored
        f2 == IF f1.PrimaryModel = Str0 THEN [f1 EXCEPT !.PrimaryModel = primary] ELSE f1
        f3 == IF f2.ActiveModel = Str0 THEN [f2 EXCEPT !.ActiveModel = primary] ELSE f2
    IN IF f3.FallbackIndex = 0 /\ f3.ActiveModel = primary
       THEN [f3 EXCEPT !.FallbackIndex = NoIndex]
       ELSE f3

NoEvent == [FromModel |-> Str0, ToModel |-> Str0, Reason |-> "", Switched |-> FALSE]

nextFallbackIndexSkips(f) == f.FallbackIndex + 2

nextFallbackIndex(f) == f.FallbackIndex + 1

fallbackExhaustedDegrades(f) ==
    [f EXCEPT !.Mode = modeDegraded,
              !.ConsecutiveProbeSuccesses = 0,
              !.LastSwitchReason = "rate_limited_fallback_exhausted"]

fallbackExhausted(f) ==
    [f EXCEPT !.LastSwitchReason = "rate_limited_fallback_exhausted"]

nextSwitchEpochSkips(f) == f.SwitchEpoch + 2

nextSwitchEpoch(f) == f.SwitchEpoch + 1

\* The hold ends at the time of the hints whenever the error carries one.
holdUntilHinted(t, err) ==
    LET hold0 == t + holdDur
        hinted == IF err.isRL THEN nextProbeFromRateLimitHints(t, err) ELSE ZeroTime
    IN IF err.isRL /\ ~IsZero(hinted) THEN hinted ELSE hold0

\* OnLLMRateLimited's holdUntil: the configured hold from t, or the time of the
\* error's hints when that is later.
holdUntilFor(t, err) ==
    LET hold0 == t + holdDur
        hinted == IF err.isRL THEN nextProbeFromRateLimitHints(t, err) ELSE ZeroTime
    IN IF err.isRL /\ After(hinted, hold0) THEN hinted ELSE hold0

\* fallbacks[i + 1] is the code's m.fallbacks[i].
OnLLMRateLimited(f, model, err, t) ==
    IF ~cfg.Enabled THEN [fs |-> f, evt |-> NoEvent, persist |-> FALSE]
    ELSE
    LET f0 == [f EXCEPT !.LastRateLimitError = err.msg]
        from0 == IF f0.ActiveModel = Str0 THEN model ELSE f0.ActiveModel
        from == IF from0 = Str0 THEN primary ELSE from0
        holdUntil == holdUntilFor(t, err)
        next0 == nextFallbackIndex(f0)
        next == IF next0 < 0 THEN 0 ELSE next0
        switch(idx) ==
            [fs |-> [f0 EXCEPT !.FallbackIndex = idx,
                               !.Mode = modeDegraded,
                               !.ActiveModel = fallbacks[idx + 1],
                               !.PrimaryModel = primary,
                               !.HoldUntil = holdUntil,
                               !.NextProbeAt = holdUntil,
                               !.ConsecutiveProbeSuccesses = 0,
                               !.LastSwitchReason = "rate_limited",
                               !.SwitchEpoch = nextSwitchEpoch(f0)],
             evt |-> [FromModel |-> from, ToModel |-> fallbacks[idx + 1],
                      Reason |-> "rate_limited", Switched |-> TRUE],
             persist |-> TRUE]
    IN IF Len(fallbacks) = 0
       THEN [fs |-> [f0 EXCEPT !.LastSwitchReason = "rate_limited_no_fallback"],
             evt |-> [FromModel |-> from, ToModel |-> from,
                      Reason |-> "no_fallback_configured", Switched |-> FALSE],
             persist |-> TRUE]
       ELSE IF from = primary THEN switch(0)
       ELSE IF next >= Len(fallbacks)
       THEN [fs |-> fallbackExhausted(f0),
             evt |-> [FromModel |-> from, ToModel |-> from,
                      Reason |-> "fallback_exhausted", Switched |-> FALSE],
             persist |-> TRUE]
       ELSE switch(next)

\* A success of the primary ends the degraded mode.
OnLLMSuccessRestores(f, model) ==
    IF cfg.Enabled /\ (f.ActiveModel = Str0 \/ model = primary)
    THEN [fs |-> [f EXCEPT !.ActiveModel = model, !.Mode = modeNormal,
                           !.FallbackIndex = NoIndex],
          persist |-> TRUE]
    ELSE [fs |-> f, persist |-> FALSE]

OnLLMSuccess(f, model) ==
    IF cfg.Enabled /\ f.ActiveModel = Str0
    THEN [fs |-> [f EXCEPT !.ActiveModel = model], persist |-> TRUE]
    ELSE [fs |-> f, persist |-> FALSE]

\* The probe is due as soon as the hold is over, whatever NextProbeAt says.
ShouldProbeAfterHold(f, t) ==
    /\ cfg.Enabled
    /\ ~(f.ActiveModel = Str0 \/ f.ActiveModel = primary)
    /\ ~Before(t, f.HoldUntil)

ShouldProbe(f, t) ==
    /\ cfg.Enabled
    /\ ~(f.ActiveModel = Str0 \/ f.ActiveModel = primary)
    /\ ~Before(t, f.HoldUntil)
    /\ (IsZero(f.NextProbeAt) \/ ~Before(t, f.NextProbeAt))

recordProbeSuccessOver(f, t) ==
    LET f1 == [f EXCEPT !.ConsecutiveProbeSuccesses = @ + 1,
                        !.NextProbeAt = t + intervalDur]
        healthy == f1.ConsecutiveProbeSuccesses > threshold
        f2 == IF healthy THEN [f1 EXCEPT !.Mode = modeAwaitingUserSwitchbk] ELSE f1
    IN [fs |-> f2,
        out |-> [Success |-> TRUE, BecameHealthy |-> healthy,
                 Prompt |-> healthy /\ cfg.SwitchbackRequiresApproval]]

recordProbeSuccessBumpsEpoch(f, t) ==
    LET f1 == [f EXCEPT !.ConsecutiveProbeSuccesses = @ + 1,
                        !.NextProbeAt = t + intervalDur]
        healthy == f1.ConsecutiveProbeSuccesses >= threshold
        f2 == IF healthy
              THEN [f1 EXCEPT !.Mode = modeAwaitingUserSwitchbk,
                              !.SwitchEpoch = IF f.Mode # modeAwaitingUserSwitchbk
                                              THEN @ + 1 ELSE @]
              ELSE f1
    IN [fs |-> f2,
        out |-> [Success |-> TRUE, BecameHealthy |-> healthy,
                 Prompt |-> healthy /\ cfg.SwitchbackRequiresApproval]]

recordProbeSuccess(f, t) ==
    LET f1 == [f EXCEPT !.ConsecutiveProbeSuccesses = @ + 1,
                        !.NextProbeAt = t + intervalDur]
        healthy == f1.ConsecutiveProbeSuccesses >= threshold
        f2 == IF healthy THEN [f1 EXCEPT !.Mode = modeAwaitingUserSwitchbk] ELSE f1
    IN [fs |-> f2,
        out |-> [Success |-> TRUE, BecameHealthy |-> healthy,
                 Prompt |-> healthy /\ cfg.SwitchbackRequiresApproval]]

recordProbeFailure(f, err, t) ==
    LET f1 == [f EXCEPT !.ConsecutiveProbeSuccesses = 0,
                        !.Mode = modeDegraded,
                        !.NextProbeAt = t + backoffDur]
        next0 == t + holdDur
        hinted == nextProbeFromRateLimitHints(t, err)
        next == IF After(hinted, next0) THEN hinted ELSE next0
        f2 == IF err.isRL
              THEN [f1 EXCEPT !.HoldUntil = next, !.NextProbeAt = next]
              ELSE f1
    IN [fs |-> f2,
        out |-> [Success |-> FALSE, BecameHealthy |-> FALSE, Prompt |-> FALSE]]

recordProbeResult(f, success, err, t) ==
    IF success THEN recordProbeSuccess(f, t) ELSE recordProbeFailure(f, err, t)

ShouldSendSwitchbackPrompt(f, t) ==
    IF f.Mode # modeAwaitingUserSwitchbk THEN [fs |-> f, ok |-> FALSE]
    ELSE IF IsZero(f.LastSwitchbackPromptAt) \/ t - f.LastSwitchbackPromptAt >= cooldownDur
    THEN [fs |-> [f EXCEPT !.LastSwitchbackPromptAt = t], ok |-> TRUE]
    ELSE [fs |-> f, ok |-> FALSE]

Chars(w) ==
    CASE w = "yes" -> <<"y","e","s">>
      [] w = "y" -> <<"y">>
      [] w = "switch" -> <<"s","w","i","t","c","h">>
      [] w = "switch back" -> <<"s","w","i","t","c","h"," ","b","a","c","k">>
      [] w = "no" -> <<"n","o">>
      [] w = "n" -> <<"n">>
      [] w = "stay" -> <<"s","t","a","y">>
      [] w = "stay fallback" -> <<"s","t","a","y"," ","f","a","l","l","b","a","c","k">>
      [] w = "/stop" -> <<"/","s","t","o","p">>

\* The message texts of the model: switchback replies in several spellings,
\* near misses, the stop command and an ordinary message.
MessageTexts ==
    {<<" ", "Y", "e", "s", "\n">>, <<"y">>, <<"S","W","I","T","C","H">>,
     <<"s","w","i","t","c","h"," ","B","a","c","k">>,
     <<"n","o">>, <<"N", " ">>, <<"\t", "S","t","a","y">>, Chars("stay fallback"),
     <<"y","e","s","!">>, <<>>, <<" ", "/","s","t","o","p">>, <<"h","i">>}

normalized(text) == ToLower(TrimSpace(text))

YesTexts ==
    {text \in MessageTexts :
        normalized(text) \in {Chars("yes"), Chars("y"), Chars("switch"), Chars("switch back")}}

NoTexts ==
    {text \in MessageTexts :
        normalized(text) \in {Chars("no"), Chars("n"), Chars("stay"), Chars("stay fallback")}}

isYes(text) == text \in YesTexts
isNo(text) == text \in NoTexts

NoDecision == [Handled |-> FALSE, Changed |-> FALSE]

switchbackApprovedKeepsIndex(f) ==
    [f EXCEPT !.Mode = modeNormal,
              !.ActiveModel = primary,
              !.ConsecutiveProbeSuccesses = 0,
              !.LastSwitchReason = "manual_switchback_approved",
              !.LastSwitchbackPromptAt = ZeroTime,
              !.SwitchEpoch = @ + 1]

switchbackApproved(f) ==
    [f EXCEPT !.Mode = modeNormal,
              !.ActiveModel = primary,
              !.FallbackIndex = NoIndex,
              !.ConsecutiveProbeSuccesses = 0,
              !.LastSwitchReason = "manual_switchback_approved",
              !.LastSwitchbackPromptAt = ZeroTime,
              !.SwitchEpoch = @ + 1]

switchbackDeclinedNoReset(f, t) ==
    [f EXCEPT !.LastSwitchReason = "manual_switchback_declined",
              !.LastSwitchbackPromptAt = t]

switchbackDeclined(f, t) ==
    [f EXCEPT !.LastSwitchReason = "manual_switchback_declined",
              !.LastSwitchbackPromptAt = t - cooldownDur + Second]

\* The decision is taken in whatever mode the reply arrives.
HandleUserSwitchbackDecisionAnyMode(f, text, t) ==
    IF ~cfg.Enabled THEN [fs |-> f, out |-> NoDecision]
    ELSE IF ~isYes(text) /\ ~isNo(text) THEN [fs |-> f, out |-> NoDecision]
    ELSE IF isYes(text)
    THEN [fs |-> switchbackApproved(f), out |-> [Handled |-> TRUE, Changed |-> TRUE]]
    ELSE [fs |-> switchbackDeclined(f, t), out |-> [Handled |-> TRUE, Changed |-> FALSE]]

HandleUserSwitchbackDecision(f, text, t) ==
    IF ~cfg.Enabled THEN [fs |-> f, out |-> NoDecision]
    ELSE IF ~isYes(text) /\ ~isNo(text) THEN [fs |-> f, out |-> NoDecision]
    ELSE IF f.Mode # modeAwaitingUserSwitchbk THEN [fs |-> f, out |-> NoDecision]
    ELSE IF isYes(text)
    THEN [fs |-> switchbackApproved(f), out |-> [Handled |-> TRUE, Changed |-> TRUE]]
    ELSE [fs |-> switchbackDeclined(f, t), out |-> [Handled |-> TRUE, Changed |-> FALSE]]

-----------------------------------------------------------------------------
(* The router's operations as steps.  persistLocked copies fs to the state *)
(* manager inside the operation that changed it.                           *)

NoPrompts == [last |-> 0 - 1, prev |-> 0 - 1]

Prompted(p, t) == [last |-> t, prev |-> p.last]

Op(name) ==
    [op |-> name, switched |-> FALSE, reason |-> "", success |-> FALSE,
     healthy |-> FALSE, prompt |-> FALSE, handled |-> FALSE, changed |-> FALSE]

OnPrimary(f) == f.Mode = modeNormal /\ f.ActiveModel = primary /\ f.FallbackIndex = NoIndex

Cap(n, m) == IF n > m THEN m ELSE n

\* No turn runs beside Run.
NoCallers == <<>>

IdleTurn ==
    [pc |-> "none", session |-> "", text |-> <<>>, iteration |-> 0, calls |-> 0,
     rlCalls |-> 0, model |-> Str0, epoch |-> 0, result |-> "", tools |-> 0,
     finalContent |-> "", response |-> "", outcome |-> "", capped |-> FALSE,
     cancelled |-> FALSE, stopArrived |-> FALSE,
     batch |-> 0, toolMsgs |-> 0, toolErrs |-> 0, lastToolMsg |-> "",
     planState |-> [Announced |-> FALSE, Bullets |-> <<>>, Allowed |-> {}],
     toolCalls |-> <<>>, planUpdate |-> "",
     messages |-> <<>>, ids |-> <<>>, lastIds |-> <<>>]

InitIdleTurns ==
    /\ inbound = <<>>
    /\ arrived = 0
    /\ run = "consume"
    /\ turn = IdleTurn
    /\ activeCancel = {}
    /\ ctxDone = FALSE
    /\ outbound = {}
    /\ lastNoticeByEP = 0
    /\ callers = NoCallers
    /\ notices = <<>>

InitRouter ==
    /\ cfg \in Configs({MaxIterations})
    /\ \E chain \in RawChains, single \in RawSingles :
          fallbacks = normalizeFallbackChain(primary, chain, single)
    /\ fs = NewManager(ZeroState)
    /\ persisted = fs
    /\ now = StartTime
    /\ probeRunning = FALSE
    /\ probe = [pc |-> "idle", prompt |-> FALSE, n |-> 0]
    /\ lastOp = Op("NewManager")
    /\ rlStreak = 0
    /\ probeStreak = 0
    /\ cycleStreak = 0
    /\ prompts = NoPrompts
    /\ InitIdleTurns

\* The routing part of a step that calls OnLLMRateLimited(model, err).
RateLimitedStep(model, err) ==
    LET r == OnLLMRateLimited(fs, model, err, now)
    IN /\ fs.SwitchEpoch < MaxEpoch
       /\ fs' = r.fs
       /\ persisted' = IF r.persist THEN persistLocked(r.fs) ELSE persisted
       /\ lastOp' = [Op("OnLLMRateLimited") EXCEPT !.switched = r.evt.Switched,
                                                   !.reason = r.evt.Reason]
       /\ rlStreak' = IF rlStreak >= 0 THEN Cap(rlStreak + 1, MaxChain + 2) ELSE rlStreak
       /\ cycleStreak' = IF r.evt.Switched THEN 0 ELSE cycleStreak
       /\ probeStreak' = IF r.evt.Switched /\ fs.Mode = modeNormal THEN 0 ELSE probeStreak
       /\ prompts' = IF r.evt.Switched THEN NoPrompts ELSE prompts
       /\ UNCHANGED <<cfg, fallbacks, now, probeRunning, probe>>

\* A backend call of some turn was rate limited.
RateLimited(model, err) ==
    /\ cfg.Enabled
    /\ err.isRL
    /\ RateLimitedStep(model, err)
    /\ UNCHANGED turnVars

\* The routing part of a step that calls HandleUserSwitchbackDecision(text).
DecisionStep(text) ==
    LET r == HandleUserSwitchbackDecision(fs, text, now)
    IN /\ fs' = r.fs
       /\ persisted' = IF r.out.Handled THEN persistLocked(r.fs) ELSE persisted
       /\ lastOp' = [Op("HandleUserSwitchbackDecision")
                        EXCEPT !.handled = r.out.Handled, !.changed = r.out.Changed]
       /\ rlStreak' = IF OnPrimary(r.fs) THEN 0 ELSE 0 - 1
       /\ probeStreak' = IF r.out.Changed THEN 0 ELSE probeStreak
       /\ cycleStreak' = IF r.out.Changed THEN 0 ELSE cycleStreak
       /\ prompts' = IF r.out.Handled THEN NoPrompts ELSE prompts

\* processMessage's routing prefix for a message that is a switchback reply.
Decision(text) ==
    /\ fs.SwitchEpoch < MaxEpoch
    /\ DecisionStep(text)
    /\ UNCHANGED <<cfg, fallbacks, now, probeRunning, probe>>
    /\ UNCHANGED turnVars

\* probeRunning.CompareAndSwap(false, true) succeeds.
CompareAndSwapAlways == TRUE

CompareAndSwap == probeRunning = FALSE

\* maybeRunFailoverProbe: ShouldProbe, then the compare-and-swap, then the goroutine.
\* probe.n counts the probe goroutines that have not returned.
MaybeProbe ==
    /\ cfg.Enabled
    /\ ShouldProbe(fs, now)
    /\ CompareAndSwap
    /\ probeRunning' = TRUE
    /\ probe' = [pc |-> "chat", prompt |-> FALSE, n |-> probe.n + 1]
    /\ lastOp' = Op("maybeRunFailoverProbe")
    /\ rlStreak' = IF OnPrimary(fs) THEN 0 ELSE 0 - 1
    /\ UNCHANGED <<cfg, fallbacks, fs, persisted, now, probeStreak, cycleStreak, prompts>>
    /\ UNCHANGED turnVars

\* RunProbe: the health-check call returns and recordProbeResult records it.
ProbeResult(success, err) ==
    LET r == recordProbeResult(fs, success, err, now)
    IN /\ probe.pc = "chat"
       /\ fs' = r.fs
       /\ persisted' = persistLocked(r.fs)
       /\ probe' = [probe EXCEPT !.pc = "recorded", !.prompt = r.out.Prompt]
       /\ lastOp' = [Op("recordProbeResult") EXCEPT !.success = r.out.Success,
                                                    !.healthy = r.out.BecameHealthy,
                                                    !.prompt = r.out.Prompt]
       /\ rlStreak' = IF OnPrimary(r.fs) THEN 0 ELSE 0 - 1
       /\ probeStreak' = IF success THEN Cap(probeStreak + 1, MaxThreshold + 2) ELSE 0
       /\ cycleStreak' = IF success THEN Cap(cycleStreak + 1, MaxThreshold + 2) ELSE 0
       /\ prompts' = IF r.out.Prompt THEN Prompted(prompts, now) ELSE prompts
       /\ UNCHANGED <<cfg, fallbacks, now, probeRunning>>
       /\ UNCHANGED turnVars

\* The rest of the probe goroutine: the prompt, then the deferred Store(false).
ProbeFinish ==
    LET r == IF probe.prompt THEN [fs |-> fs, ok |-> FALSE]
             ELSE ShouldSendSwitchbackPrompt(fs, now)
    IN /\ probe.pc = "recorded"
       /\ fs' = r.fs
       /\ persisted' = IF r.ok THEN persistLocked(r.fs) ELSE persisted
       /\ probe' = [pc |-> "idle", prompt |-> FALSE, n |-> probe.n - 1]
       /\ probeRunning' = FALSE
       /\ lastOp' = [Op("ShouldSendSwitchbackPrompt") EXCEPT !.prompt = probe.prompt \/ r.ok]
       /\ rlStreak' = IF OnPrimary(r.fs) THEN 0 ELSE 0 - 1
       /\ prompts' = IF r.ok THEN Prompted(prompts, now) ELSE prompts
       /\ UNCHANGED <<cfg, fallbacks, now, probeStreak, cycleStreak>>
       /\ UNCHANGED <<inbound, arrived, run, turn, activeCancel, ctxDone,
                      lastNoticeByEP, callers, notices>>
       /\ outbound' = IF probe.prompt \/ r.ok
                      THEN outbound \cup {<<"any", "switchback prompt">>}
                      ELSE outbound

\* Time passes, up to an instant next to one of the router's deadlines.
Deadlines == {fs.HoldUntil, fs.NextProbeAt, fs.LastSwitchbackPromptAt + cooldownDur}

Tick ==
    /\ \E t \in UNION {{d - Second, d} : d \in Deadlines} :
          /\ t > now
          /\ t <= MaxTime
          /\ now' = t
    /\ UNCHANGED <<cfg, fallbacks, fs, persisted, probeRunning, probe,
                   lastOp, rlStreak, probeStreak, cycleStreak, prompts>>
    /\ UNCHANGED turnVars

NextRouter ==
    \/ \E model \in {M0, M1}, err \in RateLimitErrs : RateLimited(model, err)
    \/ \E text \in MessageTexts : Decision(text)
    \/ MaybeProbe
    \/ \E err \in ProbeErrs : ProbeResult(err = NilErr, err)
    \/ ProbeResult(FALSE, NilErr)
    \/ ProbeFinish
    \/ Tick

SpecRouter == InitRouter /\ [][NextRouter]_vars

\* A backend call of some turn succeeded: OnLLMSuccess for the model it called.
Success(model) ==
    LET r == OnLLMSuccess(fs, model)
    IN /\ cfg.Enabled
       /\ fs' = r.fs
       /\ persisted' = IF r.persist THEN persistLocked(r.fs) ELSE persisted
       /\ lastOp' = Op("OnLLMSuccess")
       /\ rlStreak' = IF OnPrimary(r.fs) THEN 0 ELSE 0 - 1
       /\ UNCHANGED <<cfg, fallbacks, now, probeRunning, probe, probeStreak,
                      cycleStreak, prompts>>
       /\ UNCHANGED turnVars

\* The router with two fallbacks and a threshold of one probe, its backend calls
\* succeeding as well.
InitSuccess ==
    /\ cfg \in Configs({MaxIterations})
    /\ cfg.ProbeSuccessThreshold = 0
    /\ cfg.SwitchbackRequiresApproval
    /\ fallbacks = normalizeFallbackChain(primary, <<M0, M1, Str0, M1Padded, M2>>, Str0)
    /\ fs = NewManager(ZeroState)
    /\ persisted = fs
    /\ now = StartTime
    /\ probeRunning = FALSE
    /\ probe = [pc |-> "idle", prompt |-> FALSE, n |-> 0]
    /\ lastOp = Op("NewManager")
    /\ rlStreak = 0
    /\ probeStreak = 0
    /\ cycleStreak = 0
    /\ prompts = NoPrompts
    /\ InitIdleTurns

NextSuccess ==
    \/ NextRouter
    \/ \E model \in {M0, M1} : Success(model)

SpecSuccess == InitSuccess /\ [][NextSuccess]_vars

\* The process ends, with or without a probe in flight, and starts again with the
\* same configuration: NewManager reads the stored state and stores what it made
\* of it; the probe goroutine and the probeRunning flag are gone.
Restart ==
    /\ fs' = NewManager(GetFailoverState)
    /\ persisted' = SetFailoverState(fs')
    /\ probeRunning' = FALSE
    /\ probe' = [pc |-> "idle", prompt |-> FALSE, n |-> 0]
    /\ lastOp' = Op("NewManager")
    /\ rlStreak' = IF OnPrimary(fs') THEN 0 ELSE 0 - 1
    /\ UNCHANGED <<cfg, fallbacks, now, probeStreak, cycleStreak, prompts>>
    /\ UNCHANGED turnVars

NextRestart ==
    \/ NextRouter
    \/ Restart

SpecRestart == InitSuccess /\ [][NextRestart]_vars

\* The process starts again after fallback_models was cut down to its first
\* entry: NewManager normalizes the new chain and reads the stored state.
Reconfigure ==
    /\ fallbacks' = normalizeFallbackChain(primary, <<M1Padded>>, Str0)
    /\ fallbacks' # fallbacks
    /\ fs' = NewManager(GetFailoverState)
    /\ persisted' = SetFailoverState(fs')
    /\ probeRunning' = FALSE
    /\ probe' = [pc |-> "idle", prompt |-> FALSE, n |-> 0]
    /\ lastOp' = Op("NewManager")
    /\ rlStreak' = IF OnPrimary(fs') THEN 0 ELSE 0 - 1
    /\ UNCHANGED <<cfg, now, probeStreak, cycleStreak, prompts>>
    /\ UNCHANGED turnVars

NextReconfigure ==
    \/ NextRouter
    \/ Reconfigure

SpecReconfigure == InitSuccess /\ [][NextReconfigure]_vars

\* The router configured with a prompt cooldown longer than the probe interval.
LongCooldownMins == 2

PromptConfigs ==
    {[c EXCEPT !.SwitchbackPromptCooldownMins = LongCooldownMins] :
        c \in Configs({MaxIterations})}

InitPrompt ==
    /\ cfg \in PromptConfigs
    /\ \E chain \in RawChains, single \in RawSingles :
          fallbacks = normalizeFallbackChain(primary, chain, single)
    /\ fs = NewManager(ZeroState)
    /\ persisted = fs
    /\ now = StartTime
    /\ probeRunning = FALSE
    /\ probe = [pc |-> "idle", prompt |-> FALSE, n |-> 0]
    /\ lastOp = Op("NewManager")
    /\ rlStreak = 0
    /\ probeStreak = 0
    /\ cycleStreak = 0
    /\ prompts = NoPrompts
    /\ InitIdleTurns

SpecPrompt == InitPrompt /\ [][NextRouter]_vars

-----------------------------------------------------------------------------
(* AgentLoop.Run and the turn it processes.  Run is one loop: it takes a    *)
(* message from the bus, handles it to the end and only then takes the next.*)

Sessions == {"A", "B"}
StopText == <<" ", "/", "s", "t", "o", "p">>
HiText == <<"h", "i">>
InboundTexts == {StopText, HiText}

DefaultResponse == "I've completed processing but have no response to give."
Contents == {"", "answer"}

TurnErr == RateLimitErr(NoHint, NoHint, NoHint)

loopContinuesAtMax(iteration) == iteration <= cfg.MaxToolIterations

loopContinues(iteration) == iteration < cfg.MaxToolIterations

\* The route is always the primary model.
ResolveRoutePrimary(f) ==
    [Model |-> primary, IsPrimary |-> TRUE, Mode |-> f.Mode,
     SwitchEpoch |-> f.SwitchEpoch]

ResolveRoute(f) ==
    LET model == IF f.ActiveModel = Str0 THEN primary ELSE f.ActiveModel
    IN [Model |-> model, IsPrimary |-> model = primary, Mode |-> f.Mode,
        SwitchEpoch |-> f.SwitchEpoch]

InitTurn ==
    /\ cfg \in Configs({0, MaxIterations})
    /\ cfg.ProbeSuccessThreshold = 0
    /\ cfg.SwitchbackRequiresApproval
    /\ \E chain \in RawChains :
          fallbacks = normalizeFallbackChain(primary, chain, Str0)
    /\ fs = NewManager(ZeroState)
    /\ persisted = fs
    /\ now = StartTime
    /\ probeRunning = FALSE
    /\ probe = [pc |-> "idle", prompt |-> FALSE, n |-> 0]
    /\ lastOp = Op("NewManager")
    /\ rlStreak = 0
    /\ probeStreak = 0
    /\ cycleStreak = 0
    /\ prompts = NoPrompts
    /\ InitIdleTurns

\* A channel publishes an inbound message.
PublishInbound(session, text) ==
    /\ arrived < MaxInbound
    /\ arrived' = arrived + 1
    /\ inbound' = Append(inbound, [session |-> session, text |-> text])
    /\ turn' = IF /\ turn.pc \in {"chat", "retry", "tools"}
                  /\ turn.session = session
                  /\ text = StopText
               THEN [turn EXCEPT !.stopArrived = TRUE]
               ELSE turn
    /\ UNCHANGED <<run, activeCancel, ctxDone, outbound, lastNoticeByEP, callers, notices>>
    /\ UNCHANGED routerVars

\* The context given to Run is cancelled.
Shutdown ==
    /\ ~ctxDone
    /\ ctxDone' = TRUE
    /\ UNCHANGED <<inbound, arrived, run, turn, activeCancel, outbound,
                   lastNoticeByEP, callers, notices>>
    /\ UNCHANGED routerVars

\* Run's select finds ctx.Done().
RunExit ==
    /\ run = "consume"
    /\ ctxDone
    /\ run' = "stopped"
    /\ UNCHANGED <<inbound, arrived, turn, activeCancel, ctxDone, outbound,
                   lastNoticeByEP, callers, notices>>
    /\ UNCHANGED routerVars

\* Run takes a /stop message and answers Stopped. whether or not a turn was found.
RunStopAlwaysStopped ==
    /\ run = "consume"
    /\ ~ctxDone
    /\ inbound # <<>>
    /\ TrimSpace(Head(inbound).text) = Chars("/stop")
    /\ inbound' = Tail(inbound)
    /\ activeCancel' = activeCancel \ {Head(inbound).session}
    /\ turn' = IF Head(inbound).session \in activeCancel /\ turn.session = Head(inbound).session
               THEN [turn EXCEPT !.cancelled = TRUE]
               ELSE turn
    /\ outbound' = outbound \cup
          {<<Head(inbound).session,
             "Stopped.">>}
    /\ UNCHANGED <<arrived, run, ctxDone, lastNoticeByEP, callers, notices>>
    /\ UNCHANGED routerVars

\* Run takes a /stop message: LoadAndDelete the session's cancel func and call it.
RunStop ==
    /\ run = "consume"
    /\ ~ctxDone
    /\ inbound # <<>>
    /\ TrimSpace(Head(inbound).text) = Chars("/stop")
    /\ inbound' = Tail(inbound)
    /\ activeCancel' = activeCancel \ {Head(inbound).session}
    /\ turn' = IF Head(inbound).session \in activeCancel /\ turn.session = Head(inbound).session
               THEN [turn EXCEPT !.cancelled = TRUE]
               ELSE turn
    /\ outbound' = outbound \cup
          {<<Head(inbound).session,
             IF Head(inbound).session \in activeCancel
             THEN "Stopped." ELSE "Nothing running to stop.">>}
    /\ UNCHANGED <<arrived, run, ctxDone, lastNoticeByEP, callers, notices>>
    /\ UNCHANGED routerVars

\* A message is taken from the bus and its turn started while Run is still in
\* processMessage for the message before.
RunStartAnyTime ==
    /\ ~ctxDone
    /\ inbound # <<>>
    /\ TrimSpace(Head(inbound).text) # Chars("/stop")
    /\ inbound' = Tail(inbound)
    /\ activeCancel' = activeCancel \cup {Head(inbound).session}
    /\ run' = "turn"
    /\ turn' = [IdleTurn EXCEPT !.pc = "decide", !.session = Head(inbound).session,
                                !.text = Head(inbound).text]
    /\ UNCHANGED <<arrived, ctxDone, outbound, lastNoticeByEP, callers, notices>>
    /\ UNCHANGED routerVars

\* Run takes any other message: it stores the cancel func and calls processMessage.
RunStart ==
    /\ run = "consume"
    /\ ~ctxDone
    /\ inbound # <<>>
    /\ TrimSpace(Head(inbound).text) # Chars("/stop")
    /\ inbound' = Tail(inbound)
    /\ activeCancel' = activeCancel \cup {Head(inbound).session}
    /\ run' = "turn"
    /\ turn' = [IdleTurn EXCEPT !.pc = "decide", !.session = Head(inbound).session,
                                !.text = Head(inbound).text]
    /\ UNCHANGED <<arrived, ctxDone, outbound, lastNoticeByEP, callers, notices>>
    /\ UNCHANGED routerVars

\* Where processMessage goes after the decision: it returns the reply of a handled
\* decision and runs the agent loop for any other message.
afterDecision(out) == IF out.Handled THEN "return" ELSE "loop"

\* processMessage: a switchback reply is answered, any other message goes on to
\* maybeRunFailoverProbe and runAgentLoop.
TurnDecide ==
    LET d == HandleUserSwitchbackDecision(fs, TrimSpace(turn.text), now)
        starts == ~d.out.Handled /\ ShouldProbe(fs, now) /\ CompareAndSwap
    IN /\ turn.pc = "decide"
       /\ DecisionStep(TrimSpace(turn.text))
       /\ probeRunning' = (probeRunning \/ starts)
       /\ probe' = IF starts THEN [pc |-> "chat", prompt |-> FALSE, n |-> probe.n + 1]
                   ELSE probe
       /\ turn' = IF afterDecision(d.out) = "return"
                  THEN [turn EXCEPT !.pc = "return", !.response = "reply", !.outcome = "ok"]
                  ELSE [turn EXCEPT !.pc = "loop"]
       /\ UNCHANGED <<cfg, fallbacks, now>>
       /\ UNCHANGED <<inbound, arrived, run, activeCancel, ctxDone, outbound,
                      lastNoticeByEP, callers, notices>>

\* runLLMIteration: the loop condition, iteration++ and ResolveRoute.
TurnLoopHead ==
    /\ turn.pc = "loop"
    /\ turn' = IF loopContinues(turn.iteration)
               THEN [turn EXCEPT !.pc = "chat", !.iteration = @ + 1, !.calls = 0,
                                 !.rlCalls = 0, !.batch = 0, !.toolMsgs = 0,
                                 !.toolErrs = 0, !.lastToolMsg = "",
                                 !.model = ResolveRoute(fs).Model,
                                 !.epoch = ResolveRoute(fs).SwitchEpoch]
               ELSE [turn EXCEPT !.pc = "finish", !.capped = TRUE, !.batch = 0,
                                 !.toolMsgs = 0, !.toolErrs = 0, !.lastToolMsg = ""]
    /\ UNCHANGED <<inbound, arrived, run, activeCancel, ctxDone, outbound,
                   lastNoticeByEP, callers, notices>>
    /\ UNCHANGED routerVars

\* What a backend call can return; a cancelled context makes it fail.
ChatResults == {"final", "tools", "ratelimit", "error"}

\* What the turn does with a successful response: OnLLMSuccess, then the final
\* answer or the tool calls.
AfterSuccess(result, content, ntools) ==
    IF result = "final"
    THEN [turn EXCEPT !.pc = "finish", !.calls = @ + 1, !.result = "ok",
                      !.finalContent = content]
    ELSE [turn EXCEPT !.pc = "tools", !.calls = @ + 1, !.result = "ok",
                      !.tools = ntools, !.batch = ntools]

\* The first backend call returns and every error is taken for a rate limit.
TurnChatReportsAnyError(result, content, ntools) ==
    /\ turn.pc = "chat"
    /\ result = "cancelled" => (ctxDone \/ turn.cancelled)
    /\ turn' = IF result \in {"final", "tools"}
               THEN AfterSuccess(result, content, ntools)
               ELSE IF result \in {"ratelimit", "error"} /\ cfg.Enabled
               THEN [turn EXCEPT !.pc = "ratelimited", !.calls = @ + 1, !.result = result]
               ELSE [turn EXCEPT !.pc = "return", !.calls = @ + 1, !.result = result,
                                 !.outcome = "error"]
    /\ fs' = IF result \in {"final", "tools"} THEN OnLLMSuccess(fs, turn.model).fs ELSE fs
    /\ persisted' = IF result \in {"final", "tools"} /\ OnLLMSuccess(fs, turn.model).persist
                    THEN persistLocked(fs') ELSE persisted
    /\ UNCHANGED <<cfg, fallbacks, now, probeRunning, probe, lastOp, rlStreak,
                   probeStreak, cycleStreak, prompts>>
    /\ UNCHANGED <<inbound, arrived, run, activeCancel, ctxDone, outbound,
                   lastNoticeByEP, callers, notices>>

\* The first backend call of an iteration returns.
TurnChat(result, content, ntools) ==
    /\ turn.pc = "chat"
    /\ result = "cancelled" => (ctxDone \/ turn.cancelled)
    /\ turn' = IF result \in {"final", "tools"}
               THEN AfterSuccess(result, content, ntools)
               ELSE IF result = "ratelimit" /\ cfg.Enabled
               THEN [turn EXCEPT !.pc = "ratelimited", !.calls = @ + 1, !.result = result]
               ELSE [turn EXCEPT !.pc = "return", !.calls = @ + 1, !.result = result,
                                 !.outcome = "error"]
    /\ fs' = IF result \in {"final", "tools"} THEN OnLLMSuccess(fs, turn.model).fs ELSE fs
    /\ persisted' = IF result \in {"final", "tools"} /\ OnLLMSuccess(fs, turn.model).persist
                    THEN persistLocked(fs') ELSE persisted
    /\ UNCHANGED <<cfg, fallbacks, now, probeRunning, probe, lastOp, rlStreak,
                   probeStreak, cycleStreak, prompts>>
    /\ UNCHANGED <<inbound, arrived, run, activeCancel, ctxDone, outbound,
                   lastNoticeByEP, callers, notices>>

\* The rate-limit error is reported and the call retried whatever the router says.
TurnRateLimitedRetries ==
    /\ turn.pc = "ratelimited"
    /\ RateLimitedStep(turn.model, TurnErr)
    /\ turn' = [turn EXCEPT !.pc = "resolve", !.rlCalls = @ + 1]
    /\ UNCHANGED <<inbound, arrived, run, activeCancel, ctxDone, outbound,
                   lastNoticeByEP, callers, notices>>

\* The rate-limit error is reported to the router.
TurnRateLimited ==
    LET r == OnLLMRateLimited(fs, turn.model, TurnErr, now)
    IN /\ turn.pc = "ratelimited"
       /\ RateLimitedStep(turn.model, TurnErr)
       /\ turn' = IF r.evt.Switched
                  THEN [turn EXCEPT !.pc = "resolve", !.rlCalls = @ + 1]
                  ELSE [turn EXCEPT !.pc = "return", !.rlCalls = @ + 1, !.outcome = "error"]
       /\ UNCHANGED <<inbound, arrived, run, activeCancel, ctxDone, outbound,
                      lastNoticeByEP, callers, notices>>

\* notifyFailoverSwitch, then ResolveRoute for the retry.
TurnResolveRetry ==
    LET epoch == fs.SwitchEpoch
        notice == cfg.NotifyOnSwitch /\ ~(epoch > 0 /\ epoch <= lastNoticeByEP)
    IN /\ turn.pc = "resolve"
       /\ lastNoticeByEP' = IF notice /\ epoch > 0 THEN epoch ELSE lastNoticeByEP
       /\ outbound' = IF notice THEN outbound \cup {<<turn.session, "Failover active">>}
                      ELSE outbound
       /\ turn' = [turn EXCEPT !.pc = "retry",
                               !.model = ResolveRoute(fs).Model,
                               !.epoch = ResolveRoute(fs).SwitchEpoch]
       /\ notices' = IF notice THEN Append(notices, epoch) ELSE notices
       /\ UNCHANGED <<inbound, arrived, run, activeCancel, ctxDone, callers>>
       /\ UNCHANGED routerVars

\* The retry failing with a rate limit is reported and retried again.
TurnRetryAgain(result, content, ntools) ==
    /\ turn.pc = "retry"
    /\ result = "cancelled" => (ctxDone \/ turn.cancelled)
    /\ turn' = IF result \in {"final", "tools"}
               THEN AfterSuccess(result, content, ntools)
               ELSE IF result = "ratelimit"
               THEN [turn EXCEPT !.pc = "ratelimited", !.calls = @ + 1, !.result = result]
               ELSE [turn EXCEPT !.pc = "return", !.calls = @ + 1, !.result = result,
                                 !.outcome = "error"]
    /\ fs' = IF result \in {"final", "tools"} THEN OnLLMSuccess(fs, turn.model).fs ELSE fs
    /\ persisted' = IF result \in {"final", "tools"} /\ OnLLMSuccess(fs, turn.model).persist
                    THEN persistLocked(fs') ELSE persisted
    /\ UNCHANGED <<cfg, fallbacks, now, probeRunning, probe, lastOp, rlStreak,
                   probeStreak, cycleStreak, prompts>>
    /\ UNCHANGED <<inbound, arrived, run, activeCancel, ctxDone, outbound,
                   lastNoticeByEP, callers, notices>>

\* The retried backend call returns.
TurnRetry(result, content, ntools) ==
    /\ turn.pc = "retry"
    /\ result = "cancelled" => (ctxDone \/ turn.cancelled)
    /\ turn' = IF result \in {"final", "tools"}
               THEN AfterSuccess(result, content, ntools)
               ELSE [turn EXCEPT !.pc = "return", !.calls = @ + 1, !.result = result,
                                 !.outcome = "error"]
    /\ fs' = IF result \in {"final", "tools"} THEN OnLLMSuccess(fs, turn.model).fs ELSE fs
    /\ persisted' = IF result \in {"final", "tools"} /\ OnLLMSuccess(fs, turn.model).persist
                    THEN persistLocked(fs') ELSE persisted
    /\ UNCHANGED <<cfg, fallbacks, now, probeRunning, probe, lastOp, rlStreak,
                   probeStreak, cycleStreak, prompts>>
    /\ UNCHANGED <<inbound, arrived, run, activeCancel, ctxDone, outbound,
                   lastNoticeByEP, callers, notices>>

\* What tools.ExecuteWithContext returns: ForLLM, and Err with its text.
ToolErrText == "tool failed"
ToolResults ==
    {[ForLLM |-> "output", IsErr |-> FALSE],
     [ForLLM |-> "", IsErr |-> TRUE]}

contentForLLM(res) == IF res.ForLLM = "" /\ res.IsErr THEN ToolErrText ELSE res.ForLLM

\* A tool call that fails ends the turn with an error.
TurnToolAbortsOnError(res) ==
    /\ turn.pc = "tools"
    /\ turn' = IF res.IsErr
               THEN [turn EXCEPT !.pc = "return", !.outcome = "error",
                                 !.toolErrs = Cap(@ + 1, MaxTools + 1)]
               ELSE IF turn.tools > 1
               THEN [turn EXCEPT !.tools = @ - 1, !.toolMsgs = @ + 1,
                                 !.lastToolMsg = contentForLLM(res)]
               ELSE [turn EXCEPT !.tools = 0, !.pc = "loop", !.toolMsgs = @ + 1,
                                 !.lastToolMsg = contentForLLM(res)]
    /\ UNCHANGED <<inbound, arrived, run, activeCancel, ctxDone, outbound,
                   lastNoticeByEP, callers, notices>>
    /\ UNCHANGED routerVars

\* One tool call of the batch is executed and its result appended to the
\* messages as a tool-result message; the text of a tool error is the content
\* when the tool gave none for the backend.
AfterTool(res) ==
    IF turn.tools > 1
    THEN [turn EXCEPT !.tools = @ - 1, !.toolMsgs = @ + 1,
                      !.toolErrs = IF res.IsErr THEN @ + 1 ELSE @,
                      !.lastToolMsg = contentForLLM(res)]
    ELSE [turn EXCEPT !.tools = 0, !.pc = "loop", !.toolMsgs = @ + 1,
                      !.toolErrs = IF res.IsErr THEN @ + 1 ELSE @,
                      !.lastToolMsg = contentForLLM(res)]

TurnTool(res) ==
    /\ turn.pc = "tools"
    /\ turn' = AfterTool(res)
    /\ UNCHANGED <<inbound, arrived, run, activeCancel, ctxDone, outbound,
                   lastNoticeByEP, callers, notices>>
    /\ UNCHANGED routerVars

\* runAgentLoop after the loop: an empty final content becomes the default response.
TurnFinish ==
    /\ turn.pc = "finish"
    /\ turn' = [turn EXCEPT !.pc = "return", !.outcome = "ok",
                            !.response = IF turn.finalContent = ""
                                         THEN DefaultResponse ELSE turn.finalContent]
    /\ UNCHANGED <<inbound, arrived, run, activeCancel, ctxDone, outbound,
                   lastNoticeByEP, callers, notices>>
    /\ UNCHANGED routerVars

\* Err() of the turn's context: cancelled by /stop or with the context of Run.
NoCtxErr == "nil"
Canceled == "context canceled"
msgCtxErr == IF ctxDone \/ turn.cancelled THEN Canceled ELSE NoCtxErr

\* msgCancel(): a context that has no error yet gets Canceled.
msgCancel(err) == IF err = NoCtxErr THEN Canceled ELSE err

\* Back in Run: the cancel func is deleted only after a turn that returned no error.
RunReturnKeepsEntryOnError ==
    LET cancelled == turn.outcome = "error" /\ msgCancel(msgCtxErr) = Canceled
        response == IF turn.outcome = "error"
                    THEN "Error processing message" ELSE turn.response
    IN /\ run = "turn"
       /\ turn.pc = "return"
       /\ activeCancel' = IF turn.outcome = "error" THEN activeCancel
                          ELSE activeCancel \ {turn.session}
       /\ outbound' = IF cancelled \/ response = "" THEN outbound
                      ELSE outbound \cup
                           {<<turn.session, IF turn.outcome = "error" THEN "error" ELSE "response">>}
       /\ turn' = IdleTurn
       /\ run' = "consume"
       /\ UNCHANGED <<inbound, arrived, ctxDone, lastNoticeByEP, callers, notices>>
       /\ UNCHANGED routerVars

\* Back in Run: the cancel func is deleted and msgCancel() called; then an error
\* is dropped when msgCtx.Err() is Canceled and becomes the response otherwise;
\* the response is published.
RunReturn ==
    LET cancelled == turn.outcome = "error" /\ msgCancel(msgCtxErr) = Canceled
        response == IF turn.outcome = "error"
                    THEN "Error processing message" ELSE turn.response
    IN /\ run = "turn"
       /\ turn.pc = "return"
       /\ activeCancel' = activeCancel \ {turn.session}
       /\ outbound' = IF cancelled \/ response = "" THEN outbound
                      ELSE outbound \cup
                           {<<turn.session, IF turn.outcome = "error" THEN "error" ELSE "response">>}
       /\ turn' = IdleTurn
       /\ run' = "consume"
       /\ UNCHANGED <<inbound, arrived, ctxDone, lastNoticeByEP, callers, notices>>
       /\ UNCHANGED routerVars

TurnProgress ==
    \/ TurnDecide
    \/ TurnLoopHead
    \/ \E result \in ChatResults \cup {"cancelled"}, content \in Contents, ntools \in 1..MaxTools :
          TurnChat(result, content, ntools)
    \/ TurnRateLimited
    \/ TurnResolveRetry
    \/ \E result \in ChatResults \cup {"cancelled"}, content \in Contents, ntools \in 1..MaxTools :
          TurnRetry(result, content, ntools)
    \/ \E res \in ToolResults : TurnTool(res)
    \/ TurnFinish
    \/ RunReturn

NextTurn ==
    \/ \E session \in Sessions, text \in InboundTexts : PublishInbound(session, text)
    \/ Shutdown
    \/ RunExit
    \/ RunStop
    \/ RunStart
    \/ TurnProgress

SpecTurn == InitTurn /\ [][NextTurn]_vars

\* Every backend call and tool execution returns and the goroutine of Run is scheduled.
FairSpecTurn == SpecTurn /\ WF_vars(TurnProgress)

-----------------------------------------------------------------------------
(* The execution plan of a turn (package agent, plan.go).  The names, the   *)
(* arguments and the steps are strings.                                    *)

SetMin(S) == CHOOSE x \in S : \A y \in S : x <= y

\* strings.Index: the offset of the first substr in s, -1 when there is none.
Index(s, substr) ==
    LET hits == {i \in 0..(Len(s) - Len(substr)) :
                    SubSeq(s, i + 1, i + Len(substr)) = substr}
    IN IF hits = {} THEN 0 - 1 ELSE SetMin(hits)

\* strings.Fields: the pieces of s between runs of white space.
RECURSIVE Fields(_)
Fields(s) ==
    LET t == TrimLeft(s)
        spaces == {i \in 1..Len(t) : SubSeq(t, i, i) \in SpaceChars}
        n == IF spaces = {} THEN Len(t) + 1 ELSE SetMin(spaces)
    IN IF Len(t) = 0 THEN <<>>
       ELSE <<SubSeq(t, 1, n - 1)>> \o Fields(SubSeq(t, n, Len(t)))

\* strings.Join with a blank.
RECURSIVE Join(_)
Join(parts) ==
    IF Len(parts) = 0 THEN ""
    ELSE IF Len(parts) = 1 THEN parts[1]
    ELSE parts[1] \o " " \o Join(Tail(parts))

minInt(a, b) == IF a < b THEN a ELSE b

\* utils.Truncate: a string longer than maxLen is cut and ends in "...".
Truncate(s, maxLen) ==
    IF Len(s) <= maxLen THEN s ELSE SubSeq(s, 1, maxLen - 3) \o "..."

\* filepath.Base: the last element of the path, without trailing slashes.
RECURSIVE stripSlashes(_)
stripSlashes(p) ==
    IF Len(p) > 0 /\ SubSeq(p, Len(p), Len(p)) = "/"
    THEN stripSlashes(SubSeq(p, 1, Len(p) - 1))
    ELSE p

Base(path) ==
    LET p == stripSlashes(path)
        slashes == {i \in 1..Len(p) : SubSeq(p, i, i) = "/"}
        b == IF slashes = {} THEN p ELSE SubSeq(p, SetMax(slashes) + 1, Len(p))
    IN IF path = "" THEN "." ELSE IF b = "" THEN "/" ELSE b

shortenPlanPath(p) ==
    LET clean == TrimSpace(p)
    IN IF clean = "" THEN "target file"
       ELSE IF Base(clean) \in {".", "/"} THEN clean
       ELSE Base(clean)

segments == <<" && ", " | ", " ; ">>

\* The command up to the first kind of separator that occurs in it.
RECURSIVE cutAtSegment(_, _)
cutAtSegment(cmd, segs) ==
    IF Len(segs) = 0 THEN cmd
    ELSE IF Index(cmd, Head(segs)) > 0 THEN SubSeq(cmd, 1, Index(cmd, Head(segs)))
    ELSE cutAtSegment(cmd, Tail(segs))

summarizeCommandForPlan(command) ==
    LET cmd == cutAtSegment(TrimSpace(command), segments)
        parts == Fields(cmd)
        base == parts[1]
    IN IF TrimSpace(command) = "" \/ Len(parts) = 0 THEN "Run shell command"
       ELSE IF base \in {"ls", "dir"} THEN "Inspect directory contents"
       ELSE IF base \in {"cat", "head", "tail"} THEN "Inspect file contents"
       ELSE IF base \in {"rg", "grep", "find"} THEN "Search codebase for relevant entries"
       ELSE IF base = "go"
       THEN IF Len(parts) > 1 THEN "Run go " \o parts[2] ELSE "Run go command"
       ELSE IF base = "git"
       THEN IF Len(parts) > 1 THEN "Run git " \o parts[2] ELSE "Run git command"
       ELSE IF base \in {"npm", "pnpm", "yarn"}
       THEN IF Len(parts) > 1 THEN "Run " \o base \o " " \o parts[2]
            ELSE "Run " \o base \o " command"
       ELSE IF base \in {"python", "python3"} THEN "Run Python script"
       ELSE "Run command: " \o
            Truncate(Join(SubSeq(parts, 1, minInt(3, Len(parts)))), 48)

\* A tool call is [Name, Function, Arguments]: Function is <<>> for a nil
\* pointer and <<[Name |-> n]>> otherwise, Arguments is the map of its string
\* arguments.
NoArguments == [k \in {} |-> ""]

ToolCall(name, arguments) == [Name |-> name, Function |-> <<>>, Arguments |-> arguments]

\* tc.Arguments[key].(string)
Argument(tc, key) == IF key \in DOMAIN tc.Arguments THEN tc.Arguments[key] ELSE ""

\* The name of a call: tc.Name, or the name of tc.Function when that is empty.
toolName(tc) ==
    IF TrimSpace(tc.Name) = "" /\ Len(tc.Function) > 0
    THEN TrimSpace(tc.Function[1].Name)
    ELSE TrimSpace(tc.Name)

\* A call without a name gets no step.
summarizeToolCallForPlanNamed(tc) ==
    LET name == toolName(tc)
    IN IF name = "" THEN ""
       ELSE IF name = "exec" THEN summarizeCommandForPlan(Argument(tc, "command"))
       ELSE "Run " \o name

summarizeToolCallForPlan(tc) ==
    LET name == toolName(tc)
        path == Argument(tc, "path")
    IN IF name = "" THEN "Execute required operation"
       ELSE IF name = "exec" THEN summarizeCommandForPlan(Argument(tc, "command"))
       ELSE IF name = "read_file"
       THEN IF path # "" THEN "Read " \o shortenPlanPath(path) ELSE "Read required files"
       ELSE IF name = "write_file"
       THEN IF path # "" THEN "Write " \o shortenPlanPath(path) ELSE "Write updated files"
       ELSE IF name = "list_dir"
       THEN IF path # "" THEN "List " \o shortenPlanPath(path) ELSE "List directory contents"
       ELSE IF name = "web_search" THEN "Search the web for required context"
       ELSE IF name = "web_fetch" THEN "Fetch and inspect referenced content"
       ELSE IF name \in {"spawn", "subagent"} THEN "Delegate a focused subtask"
       ELSE "Run " \o name

RECURSIVE buildBulletsLoop(_, _, _)
buildBulletsLoop(toolCalls, seen, bullets) ==
    IF Len(toolCalls) = 0 THEN bullets
    ELSE LET step == summarizeToolCallForPlan(Head(toolCalls))
         IN IF step = "" \/ step \in seen
            THEN buildBulletsLoop(Tail(toolCalls), seen, bullets)
            ELSE buildBulletsLoop(Tail(toolCalls), seen \cup {step}, Append(bullets, step))

\* Every call of the batch gets its step, also when an equal step is there.
buildExecutionPlanBulletsNoSeen(toolCalls) ==
    [i \in 1..Len(toolCalls) |-> summarizeToolCallForPlan(toolCalls[i])]

buildExecutionPlanBullets(toolCalls) == buildBulletsLoop(toolCalls, {}, <<>>)

newExecutionPlanState == [Announced |-> FALSE, Bullets |-> <<>>, Allowed |-> {}]

\* Only the first call of the batch is absorbed.
absorbToolCallsFirst(Allowed, calls) ==
    Allowed \cup ({toolName(calls[i]) : i \in 1..minInt(1, Len(calls))} \ {""})

absorbToolCalls(Allowed, calls) ==
    Allowed \cup ({toolName(calls[i]) : i \in 1..Len(calls)} \ {""})

isAllowedTool(Allowed, name) == name \in Allowed

maxPlanBullets == 6

-----------------------------------------------------------------------------
(* runLLMIteration with the tool calls of the backend's responses and the   *)
(* plan state of the turn: the steps of TurnChat and TurnTool for a response *)
(* with tool calls, with the calls themselves.                              *)

MaxBatchLen == 2   \* tool calls of a batch drawn from PlanCalls

ReadA == ToolCall("read_file", [path |-> "/tmp/a.txt"])
ExecRg == ToolCall("exec", [command |-> "rg foo ."])
WebSearch == ToolCall("web_search", NoArguments)
Nameless == ToolCall("", NoArguments)
ExecByFunction ==
    [Name |-> " ", Function |-> <<[Name |-> " exec\n"]>>, Arguments |-> NoArguments]

PlanCalls == {ReadA, ExecRg, WebSearch, Nameless, ExecByFunction}

\* A batch of six calls with six steps, and one more.
SixCalls ==
    <<ReadA, ToolCall("write_file", [path |-> "out/b.txt "]),
      ToolCall("list_dir", [path |-> "/"]), ToolCall("web_fetch", NoArguments),
      ToolCall("spawn", NoArguments), ToolCall("exec", [command |-> "go test ./... && ls"])>>

\* The batches of a response: every batch of up to MaxBatchLen of PlanCalls, a
\* repeated call before another one, two calls with the same step, and the long
\* batches.
Batches ==
    UNION {[1..n -> PlanCalls] : n \in 1..MaxBatchLen}
    \cup {<<ReadA, ReadA, ExecRg>>,
          <<ExecRg, ToolCall("exec", [command |-> " grep -r foo | wc"])>>,
          SixCalls,
          Append(SixCalls, ToolCall("message", NoArguments))}

InitPlan ==
    /\ cfg \in Configs({MaxIterations})
    /\ cfg.ProbeSuccessThreshold = 0
    /\ cfg.SwitchbackRequiresApproval
    /\ fallbacks = normalizeFallbackChain(primary, <<M1Padded>>, Str0)
    /\ fs = NewManager(ZeroState)
    /\ persisted = fs
    /\ now = StartTime
    /\ probeRunning = FALSE
    /\ probe = [pc |-> "idle", prompt |-> FALSE, n |-> 0]
    /\ lastOp = Op("NewManager")
    /\ rlStreak = 0
    /\ probeStreak = 0
    /\ cycleStreak = 0
    /\ prompts = NoPrompts
    /\ inbound = <<>>
    /\ arrived = 1
    /\ run = "turn"
    /\ turn = [IdleTurn EXCEPT !.pc = "loop", !.session = "A", !.text = HiText,
                               !.planState = newExecutionPlanState]
    /\ activeCancel = {"A"}
    /\ ctxDone = FALSE
    /\ outbound = {}
    /\ lastNoticeByEP = 0
    /\ callers = NoCallers
    /\ notices = <<>>

\* The plan state after a response with tool calls: the first batch of the turn
\* becomes the plan and its tool names the allowed ones.
announcePlan(planState, toolCalls) ==
    IF ~planState.Announced
    THEN [Announced |-> TRUE,
          Bullets |-> buildExecutionPlanBullets(toolCalls),
          Allowed |-> absorbToolCalls(planState.Allowed, toolCalls)]
    ELSE planState

\* The ids the backend gives to the n tool calls of the response of an iteration.
callIDs(iteration, n) == [i \in 1..n |-> <<iteration, i>>]

\* The assistant message of a response: it carries the tool calls with their ids.
assistantMsg(ids) == [Role |-> "assistant", ToolCalls |-> ids, ToolCallID |-> <<>>]

\* The tool-result message carries no id.
toolResultMsgNoID(id) == [Role |-> "tool", ToolCalls |-> <<>>, ToolCallID |-> <<>>]

\* The tool-result message of the call with this id.
toolResultMsg(id) == [Role |-> "tool", ToolCalls |-> <<>>, ToolCallID |-> id]

\* The backend's response carries the tool calls toolCalls.
PlanBatch(toolCalls) ==
    /\ turn.pc = "chat"
    /\ turn' = [AfterSuccess("tools", "", Len(toolCalls)) EXCEPT
                    !.toolCalls = toolCalls,
                    !.ids = callIDs(turn.iteration, Len(toolCalls)),
                    !.lastIds = callIDs(turn.iteration, Len(toolCalls)),
                    !.messages = Append(@, assistantMsg(callIDs(turn.iteration,
                                                                Len(toolCalls)))),
                    !.planUpdate = "",
                    !.planState = announcePlan(turn.planState, toolCalls)]
    /\ fs' = OnLLMSuccess(fs, turn.model).fs
    /\ persisted' = IF OnLLMSuccess(fs, turn.model).persist THEN persistLocked(fs') ELSE persisted
    /\ outbound' = IF turn.planState.Announced THEN outbound
                   ELSE outbound \cup {<<turn.session, "Execution plan">>}
    /\ UNCHANGED <<cfg, fallbacks, now, probeRunning, probe, lastOp, rlStreak,
                   probeStreak, cycleStreak, prompts>>
    /\ UNCHANGED <<inbound, arrived, run, activeCancel, ctxDone, lastNoticeByEP, callers, notices>>

\* A call deviates from the plan when its tool name is not an allowed one.
deviates(planState, tc) ==
    /\ planState.Announced
    /\ toolName(tc) # ""
    /\ ~isAllowedTool(planState.Allowed, toolName(tc))

\* The step of the deviating call is appended and its name not remembered.
planUpdateForgets(planState, tc) ==
    IF deviates(planState, tc)
    THEN [planState EXCEPT
             !.Bullets = IF Len(@) < maxPlanBullets
                         THEN Append(@, summarizeToolCallForPlan(tc)) ELSE @]
    ELSE planState

\* The plan state after the check of one tool call before it is executed.
planUpdate(planState, tc) ==
    IF deviates(planState, tc)
    THEN [planState EXCEPT
             !.Bullets = IF Len(@) < maxPlanBullets
                         THEN Append(@, summarizeToolCallForPlan(tc)) ELSE @,
             !.Allowed = @ \cup {toolName(tc)}]
    ELSE planState

\* The next tool call of the batch: the plan update when it deviates, then its
\* execution as in TurnTool and its tool-result message.
PlanToolCall(res) ==
    LET tc == Head(turn.toolCalls)
        deviation == deviates(turn.planState, tc)
    IN /\ turn.pc = "tools"
       /\ Len(turn.toolCalls) > 0
       /\ turn' = [AfterTool(res) EXCEPT
                       !.toolCalls = Tail(@),
                       !.ids = Tail(@),
                       !.messages = Append(@, toolResultMsg(Head(turn.ids))),
                       !.planUpdate = IF deviation THEN summarizeToolCallForPlan(tc)
                                      ELSE "",
                       !.planState = planUpdate(turn.planState, tc)]
       /\ outbound' = IF deviation THEN outbound \cup {<<turn.session, "Plan update">>}
                      ELSE outbound
       /\ UNCHANGED <<inbound, arrived, run, activeCancel, ctxDone, lastNoticeByEP, callers, notices>>
       /\ UNCHANGED routerVars

NextPlan ==
    \/ TurnLoopHead
    \/ \E toolCalls \in Batches : PlanBatch(toolCalls)
    \/ \E res \in ToolResults : PlanToolCall(res)
    \/ \E content \in Contents : TurnChat("final", content, 1)
    \/ TurnFinish

SpecPlan == InitPlan /\ [][NextPlan]_vars

-----------------------------------------------------------------------------
(* Turns that run at the same time: ProcessDirect and ProcessHeartbeat are   *)
(* called from other goroutines than Run and go through runLLMIteration as  *)
(* well.  Each caller is one such turn; a step is one access to what the     *)
(* turns share: the router under its lock, lastNoticeByEP under noticeMu,    *)
(* the bus.                                                                  *)

CallerIds == {1, 2}

NewCaller == [pc |-> "route", model |-> Str0, epoch |-> 0, noticeEpoch |-> 0]

InitCallers ==
    /\ cfg \in Configs({MaxIterations})
    /\ \E chain \in RawChains, single \in RawSingles :
          fallbacks = normalizeFallbackChain(primary, chain, single)
    /\ fs = NewManager(ZeroState)
    /\ persisted = fs
    /\ now = StartTime
    /\ probeRunning = FALSE
    /\ probe = [pc |-> "idle", prompt |-> FALSE, n |-> 0]
    /\ lastOp = Op("NewManager")
    /\ rlStreak = 0
    /\ probeStreak = 0
    /\ cycleStreak = 0
    /\ prompts = NoPrompts
    /\ inbound = <<>>
    /\ arrived = 0
    /\ run = "consume"
    /\ turn = IdleTurn
    /\ activeCancel = {}
    /\ ctxDone = FALSE
    /\ outbound = {}
    /\ lastNoticeByEP = 0
    /\ callers = [id \in CallerIds |-> NewCaller]
    /\ notices = <<>>

callerFrame == <<inbound, arrived, run, turn, activeCancel, ctxDone>>

\* runLLMIteration: ResolveRoute before the backend call.
CallerRoute(id) ==
    /\ callers[id].pc = "route"
    /\ callers' = [callers EXCEPT ![id] = [@ EXCEPT !.pc = "chat",
                                                    !.model = ResolveRoute(fs).Model,
                                                    !.epoch = ResolveRoute(fs).SwitchEpoch]]
    /\ UNCHANGED <<outbound, lastNoticeByEP, notices>>
    /\ UNCHANGED callerFrame
    /\ UNCHANGED routerVars

\* The backend call succeeds: OnLLMSuccess for the model that was called.
CallerSuccess(id) ==
    /\ callers[id].pc \in {"chat", "retry"}
    /\ fs' = OnLLMSuccess(fs, callers[id].model).fs
    /\ persisted' = IF OnLLMSuccess(fs, callers[id].model).persist THEN persistLocked(fs') ELSE persisted
    /\ callers' = [callers EXCEPT ![id] = [@ EXCEPT !.pc = "done"]]
    /\ UNCHANGED <<cfg, fallbacks, now, probeRunning, probe, lastOp, rlStreak,
                   probeStreak, cycleStreak, prompts>>
    /\ UNCHANGED <<outbound, lastNoticeByEP, notices>>
    /\ UNCHANGED callerFrame

\* The backend call fails with a rate limit: OnLLMRateLimited for the model that
\* was called; notifyFailoverSwitch follows a switch.
CallerRateLimited(id) ==
    LET r == OnLLMRateLimited(fs, callers[id].model, TurnErr, now)
    IN /\ callers[id].pc = "chat"
       /\ cfg.Enabled
       /\ RateLimitedStep(callers[id].model, TurnErr)
       /\ callers' = [callers EXCEPT ![id] =
                         [@ EXCEPT !.pc = IF r.evt.Switched THEN "notify" ELSE "done"]]
       /\ UNCHANGED <<outbound, lastNoticeByEP, notices>>
       /\ UNCHANGED callerFrame

\* notifyFailoverSwitch: the epoch is read from a Snapshot of the router.
CallerSnapshot(id) ==
    /\ callers[id].pc = "notify"
    /\ callers' = [callers EXCEPT ![id] =
                      IF cfg.NotifyOnSwitch
                      THEN [@ EXCEPT !.pc = "noticeMu", !.noticeEpoch = fs.SwitchEpoch]
                      ELSE [@ EXCEPT !.pc = "resolve"]]
    /\ UNCHANGED <<outbound, lastNoticeByEP, notices>>
    /\ UNCHANGED callerFrame
    /\ UNCHANGED routerVars

\* Every epoch is taken for a new one.
isNewEpochAlways(epoch, last) == TRUE

\* The epoch is a new one when it is above the last one notified.
isNewEpoch(epoch, last) == ~(epoch > 0 /\ epoch <= last)

\* notifyFailoverSwitch under noticeMu: an epoch already notified ends it, a new
\* one becomes lastNoticeByEP.
CallerNoticeMu(id) ==
    LET epoch == callers[id].noticeEpoch
    IN /\ callers[id].pc = "noticeMu"
       /\ lastNoticeByEP' = IF isNewEpoch(epoch, lastNoticeByEP) /\ epoch > 0
                            THEN epoch ELSE lastNoticeByEP
       /\ callers' = [callers EXCEPT ![id] =
                         [@ EXCEPT !.pc = IF isNewEpoch(epoch, lastNoticeByEP)
                                          THEN "publish" ELSE "resolve"]]
       /\ UNCHANGED <<outbound, notices>>
       /\ UNCHANGED callerFrame
       /\ UNCHANGED routerVars

\* notifyFailoverSwitch after the unlock: the notification is published.
CallerPublish(id) ==
    /\ callers[id].pc = "publish"
    /\ outbound' = outbound \cup {<<"direct", "Failover active">>}
    /\ notices' = Append(notices, callers[id].noticeEpoch)
    /\ callers' = [callers EXCEPT ![id] = [@ EXCEPT !.pc = "resolve"]]
    /\ UNCHANGED lastNoticeByEP
    /\ UNCHANGED callerFrame
    /\ UNCHANGED routerVars

\* ResolveRoute for the retry.
CallerResolveRetry(id) ==
    /\ callers[id].pc = "resolve"
    /\ callers' = [callers EXCEPT ![id] = [@ EXCEPT !.pc = "retry",
                                                    !.model = ResolveRoute(fs).Model,
                                                    !.epoch = ResolveRoute(fs).SwitchEpoch]]
    /\ UNCHANGED <<outbound, lastNoticeByEP, notices>>
    /\ UNCHANGED callerFrame
    /\ UNCHANGED routerVars

\* The retried call fails: the turn ends with the error.
CallerRetryFails(id) ==
    /\ callers[id].pc = "retry"
    /\ callers' = [callers EXCEPT ![id] = [@ EXCEPT !.pc = "done"]]
    /\ UNCHANGED <<outbound, lastNoticeByEP, notices>>
    /\ UNCHANGED callerFrame
    /\ UNCHANGED routerVars

\* The next turn of the caller.
CallerAgain(id) ==
    /\ callers[id].pc = "done"
    /\ callers' = [callers EXCEPT ![id] = NewCaller]
    /\ UNCHANGED <<outbound, lastNoticeByEP, notices>>
    /\ UNCHANGED callerFrame
    /\ UNCHANGED routerVars

NextCallers ==
    \/ \E id \in CallerIds : CallerRoute(id)
    \/ \E id \in CallerIds : CallerSuccess(id)
    \/ \E id \in CallerIds : CallerRateLimited(id)
    \/ \E id \in CallerIds : CallerSnapshot(id)
    \/ \E id \in CallerIds : CallerNoticeMu(id)
    \/ \E id \in CallerIds : CallerPublish(id)
    \/ \E id \in CallerIds : CallerResolveRetry(id)
    \/ \E id \in CallerIds : CallerRetryFails(id)
    \/ \E id \in CallerIds : CallerAgain(id)

SpecCallers == InitCallers /\ [][NextCallers]_vars

-----------------------------------------------------------------------------
(* Properties of the failover router *)

\* C1: from Normal on the primary, the k-th rate-limit event in a row (k = 1..N for
\* a chain of N >= 1 fallbacks) reports switched=true and makes the k-th fallback
\* active; the (N+1)-th reports switched=false, fallback_exhausted, and the last
\* fallback stays active.
C1_RateLimitsWalkTheChain ==
    (cfg.Enabled /\ Len(fallbacks) >= 1 /\ rlStreak >= 1) =>
        /\ lastOp.op = "OnLLMRateLimited"
        /\ rlStreak <= Len(fallbacks) =>
              /\ lastOp.switched
              /\ fs.ActiveModel = fallbacks[rlStreak]
              /\ fs.FallbackIndex = rlStreak - 1
        /\ rlStreak = Len(fallbacks) + 1 =>
              /\ ~lastOp.switched
              /\ lastOp.reason = "fallback_exhausted"
              /\ fs.ActiveModel = fallbacks[Len(fallbacks)]

C1_Witness ==
    /\ Len(fallbacks) = 2
    /\ rlStreak = 3
    /\ lastOp.reason = "fallback_exhausted"
    /\ fs.ActiveModel = M2

\* C2: the active model is the primary if and only if no fallback index is set
\* and the mode is Normal.
C2_PrimaryIffNormal ==
    (fs.ActiveModel = primary) <=> (fs.FallbackIndex = NoIndex /\ fs.Mode = modeNormal)

\* C3: every change of mode follows Normal->Degraded, Degraded->Awaiting,
\* Awaiting->Normal or Awaiting->Degraded.
ModeEdges ==
    {<<modeNormal, modeDegraded>>, <<modeDegraded, modeAwaitingUserSwitchbk>>,
     <<modeAwaitingUserSwitchbk, modeNormal>>, <<modeAwaitingUserSwitchbk, modeDegraded>>}

C3_ModeEdges ==
    [][fs'.Mode # fs.Mode => <<fs.Mode, fs'.Mode>> \in ModeEdges]_vars

\* C4 as claimed: while degraded, a step makes the mode AwaitingSwitchback exactly
\* when it records a successful probe that completes ProbeSuccessThreshold
\* successful probe results in a row; a failed probe zeroes the counter.
C4_ThresholdOfConsecutiveProbes ==
    [][(fs.Mode = modeDegraded /\ fs.ActiveModel # primary /\ now' = now) =>
          /\ (fs'.Mode = modeAwaitingUserSwitchbk) <=>
                /\ lastOp'.op = "recordProbeResult"
                /\ lastOp'.success
                /\ probeStreak' >= maxInt(cfg.ProbeSuccessThreshold, 1)
          /\ (lastOp'.op = "recordProbeResult" /\ ~lastOp'.success) =>
                fs'.ConsecutiveProbeSuccesses = 0]_vars

\* C4 amended: the same, the successful probe results being in a row since the
\* last failed probe and since the last rate-limit switch.
C4_ThresholdSinceLastSwitch ==
    [][(fs.Mode = modeDegraded /\ fs.ActiveModel # primary /\ now' = now) =>
          /\ (fs'.Mode = modeAwaitingUserSwitchbk) <=>
                /\ lastOp'.op = "recordProbeResult"
                /\ lastOp'.success
                /\ cycleStreak' >= maxInt(cfg.ProbeSuccessThreshold, 1)
          /\ (lastOp'.op = "recordProbeResult" /\ ~lastOp'.success) =>
                fs'.ConsecutiveProbeSuccesses = 0]_vars

C4_Witness ==
    /\ cfg.ProbeSuccessThreshold = 2
    /\ lastOp.op = "recordProbeResult"
    /\ lastOp.success
    /\ cycleStreak = 2
    /\ fs.Mode = modeAwaitingUserSwitchbk

\* The replies the specification calls yes-equivalent and no-equivalent.
YesReplies ==
    {<<" ", "Y", "e", "s", "\n">>, <<"y">>, <<"S","W","I","T","C","H">>,
     <<"s","w","i","t","c","h"," ","B","a","c","k">>}
NoReplies ==
    {<<"n","o">>, <<"N", " ">>, <<"\t", "S","t","a","y">>,
     <<"s","t","a","y"," ","f","a","l","l","b","a","c","k">>}

\* C5: a yes-equivalent reply while AwaitingSwitchback makes the primary active,
\* the mode Normal, the fallback index unset, the probe counter 0 and the switch
\* epoch one larger.
C5_YesSwitchesBack ==
    [][\A text \in YesReplies :
          (cfg.Enabled /\ fs.Mode = modeAwaitingUserSwitchbk /\ Decision(text)) =>
              /\ fs'.ActiveModel = primary
              /\ fs'.Mode = modeNormal
              /\ fs'.FallbackIndex = NoIndex
              /\ fs'.ConsecutiveProbeSuccesses = 0
              /\ fs'.SwitchEpoch = fs.SwitchEpoch + 1
              /\ lastOp'.handled]_vars

C5_Witness ==
    /\ lastOp.op = "HandleUserSwitchbackDecision"
    /\ lastOp.changed
    /\ fs.LastSwitchReason = "manual_switchback_approved"
    /\ fs.SwitchEpoch = 2

\* C6: a no-equivalent reply while AwaitingSwitchback keeps mode, active model,
\* fallback index and switch epoch, and from one second later the prompt check
\* produces a switchback prompt again.
C6_NoKeepsRouteAndRearmsPrompt ==
    [][\A text \in NoReplies :
          (cfg.Enabled /\ fs.Mode = modeAwaitingUserSwitchbk /\ Decision(text)) =>
              /\ fs'.Mode = fs.Mode
              /\ fs'.ActiveModel = fs.ActiveModel
              /\ fs'.FallbackIndex = fs.FallbackIndex
              /\ fs'.SwitchEpoch = fs.SwitchEpoch
              /\ lastOp'.handled
              /\ ShouldSendSwitchbackPrompt(fs', now + Second).ok]_vars

C6_Witness ==
    /\ lastOp.op = "HandleUserSwitchbackDecision"
    /\ lastOp.handled
    /\ ~lastOp.changed
    /\ fs.LastSwitchReason = "manual_switchback_declined"
    /\ fs.Mode = modeAwaitingUserSwitchbk

\* C7: with switchback approval not required, the probe result that reaches the
\* success threshold leaves the primary active and the mode Normal.
C7_AutoSwitchback ==
    (/\ ~cfg.SwitchbackRequiresApproval
     /\ lastOp.op = "recordProbeResult"
     /\ lastOp.healthy) =>
        (fs.ActiveModel = primary /\ fs.Mode = modeNormal)

-----------------------------------------------------------------------------
(* Properties of the turn orchestrator *)

\* C8: a /stop for the session of a turn that is waiting on a backend call or
\* executing a tool is handled before the turn ends: when the turn returns, its
\* cancel func has been called and the turn ended with the error of a cancelled
\* context.
C8_StopInterruptsTurn ==
    (turn.pc = "return" /\ turn.stopArrived) =>
        (turn.cancelled /\ turn.outcome = "error" /\ turn.result = "cancelled")

C10_TurnsTerminate ==
    /\ [](turn.iteration <= cfg.MaxToolIterations)
    /\ []((turn.pc = "return" /\ turn.outcome = "ok") => turn.response # "")
    /\ []((turn.pc = "return" /\ turn.capped) => turn.outcome = "ok")
    /\ (run = "turn") ~> (run = "consume")

C10_Witness ==
    /\ turn.pc = "return"
    /\ turn.capped
    /\ cfg.MaxToolIterations = 2
    /\ turn.iteration = 2
    /\ turn.response = DefaultResponse

-----------------------------------------------------------------------------
(* Properties of the switchback prompt and the probe *)

\* C11: two switchback prompts produced in one failover cycle, with no reply of
\* the user between them, are at least the prompt cooldown apart.
C11_OnePromptPerCooldown ==
    prompts.prev # 0 - 1 => prompts.last - prompts.prev >= cooldownDur

\* C12: at most one probe goroutine is in flight, probeRunning is set exactly
\* while it is, and a probe starts only when the flag is clear and the probe
\* before it has recorded its result and returned.
C12_SingleProbe ==
    /\ [](probe.n <= 1)
    /\ [](probeRunning <=> probe.n = 1)
    /\ [](probe.pc # "idle" <=> probe.n = 1)
    /\ [][probe'.n > probe.n => (~probeRunning /\ probe.pc = "idle")]_vars

\* A second probe of the cycle is in flight while ShouldProbe still holds for
\* every message that arrives.
C12_Witness ==
    /\ probe.n = 1
    /\ probe.pc = "chat"
    /\ ShouldProbe(fs, now)
    /\ fs.ConsecutiveProbeSuccesses >= 1

\* C13 as claimed: the switch epoch never decreases and every step that changes
\* the mode makes it larger.
C13_EpochGrowsWithMode ==
    [][/\ fs'.SwitchEpoch >= fs.SwitchEpoch
       /\ fs'.Mode # fs.Mode => fs'.SwitchEpoch > fs.SwitchEpoch]_vars

\* C13 amended: the switch epoch never decreases; it grows by one exactly in the
\* steps that switch the route (a rate-limit event that reports a switch, an
\* approved switchback); a probe result leaves it as it is, also when it changes
\* the mode.
C13_EpochGrowsWithRoute ==
    [][/\ fs'.SwitchEpoch \in {fs.SwitchEpoch, fs.SwitchEpoch + 1}
       /\ fs'.SwitchEpoch = fs.SwitchEpoch + 1 <=>
             /\ fs' # fs
             /\ \/ lastOp'.op = "OnLLMRateLimited" /\ lastOp'.switched
                \/ lastOp'.op = "HandleUserSwitchbackDecision" /\ lastOp'.changed
       /\ (probe.pc = "chat" /\ probe'.pc = "recorded") =>
             fs'.SwitchEpoch = fs.SwitchEpoch]_vars

\* A probe result has just made the mode AwaitingSwitchback after two switches.
C13_Witness ==
    /\ lastOp.op = "recordProbeResult"
    /\ lastOp.healthy
    /\ fs.Mode = modeAwaitingUserSwitchbk
    /\ fs.ActiveModel = M2
    /\ fs.SwitchEpoch = 2

\* C14: a rate-limit event that reports a switch makes the switch epoch one
\* larger, one that reports none leaves it; from the fresh router (epoch 0) with
\* primary M0 and chain [M1, M2] the first three rate-limit events give
\* (M1, 1), (M2, 2), (M2, 2).
C14_EpochCountsSwitches ==
    /\ [][(lastOp'.op = "OnLLMRateLimited" /\ now' = now) =>
             fs'.SwitchEpoch = IF lastOp'.switched THEN fs.SwitchEpoch + 1
                               ELSE fs.SwitchEpoch]_vars
    /\ []((now = StartTime /\ fallbacks = <<M1, M2>> /\ rlStreak = 1) =>
             (fs.ActiveModel = M1 /\ fs.SwitchEpoch = 1))
    /\ []((now = StartTime /\ fallbacks = <<M1, M2>> /\ rlStreak = 2) =>
             (fs.ActiveModel = M2 /\ fs.SwitchEpoch = 2))
    /\ []((now = StartTime /\ fallbacks = <<M1, M2>> /\ rlStreak >= 3) =>
             (fs.ActiveModel = M2 /\ fs.SwitchEpoch = 2))

C14_Witness ==
    /\ now = StartTime
    /\ fallbacks = <<M1, M2>>
    /\ rlStreak = 3
    /\ ~lastOp.switched
    /\ fs.ActiveModel = M2
    /\ fs.SwitchEpoch = 2

\* A rate-limit event arrives while the last fallback of the chain is active.
ExhaustedStep ==
    /\ lastOp'.op = "OnLLMRateLimited"
    /\ now' = now
    /\ Len(fallbacks) >= 1
    /\ fs.ActiveModel = fallbacks[Len(fallbacks)]

\* C15 as claimed: with the chain exhausted OnLLMRateLimited reports
\* switched=false, fallback_exhausted, and keeps mode, active model, fallback
\* index, switch epoch, hold, next probe time, probe counter and last switch reason.
C15_ExhaustedChangesNothing ==
    [][ExhaustedStep =>
          /\ ~lastOp'.switched
          /\ lastOp'.reason = "fallback_exhausted"
          /\ fs'.Mode = fs.Mode
          /\ fs'.ActiveModel = fs.ActiveModel
          /\ fs'.FallbackIndex = fs.FallbackIndex
          /\ fs'.SwitchEpoch = fs.SwitchEpoch
          /\ fs'.HoldUntil = fs.HoldUntil
          /\ fs'.NextProbeAt = fs.NextProbeAt
          /\ fs'.ConsecutiveProbeSuccesses = fs.ConsecutiveProbeSuccesses
          /\ fs'.LastSwitchReason = fs.LastSwitchReason]_vars

\* C15 amended: the same, except that the last switch reason becomes
\* rate_limited_fallback_exhausted and the state is persisted.
C15_ExhaustedKeepsRoute ==
    [][ExhaustedStep =>
          /\ ~lastOp'.switched
          /\ lastOp'.reason = "fallback_exhausted"
          /\ fs'.Mode = fs.Mode
          /\ fs'.ActiveModel = fs.ActiveModel
          /\ fs'.FallbackIndex = fs.FallbackIndex
          /\ fs'.SwitchEpoch = fs.SwitchEpoch
          /\ fs'.HoldUntil = fs.HoldUntil
          /\ fs'.NextProbeAt = fs.NextProbeAt
          /\ fs'.ConsecutiveProbeSuccesses = fs.ConsecutiveProbeSuccesses
          /\ fs'.LastSwitchReason = "rate_limited_fallback_exhausted"
          /\ persisted' = fs']_vars

\* The chain was found exhausted while the router awaited the switchback reply.
C15_Witness ==
    /\ lastOp.op = "OnLLMRateLimited"
    /\ lastOp.reason = "fallback_exhausted"
    /\ fs.LastSwitchReason = "rate_limited_fallback_exhausted"
    /\ fs.Mode = modeAwaitingUserSwitchbk
    /\ fs.ConsecutiveProbeSuccesses >= 1

-----------------------------------------------------------------------------
(* Properties of the turn's error handling *)

\* C16: when OnLLMRateLimited reports no switch, the turn makes no retry and no
\* other backend call: it returns the rate-limit error after the one call of the
\* iteration, and Run goes on to the next message.
C16_NoSwitchIsTerminal ==
    /\ [][(turn.pc = "ratelimited" /\ turn'.pc # "ratelimited" /\ ~lastOp'.switched) =>
             /\ turn'.pc = "return"
             /\ turn'.outcome = "error"
             /\ turn'.result = "ratelimit"
             /\ turn'.calls = 1]_vars
    /\ [][(turn.pc = "return" /\ turn'.pc # "return") => run' = "consume"]_vars

\* A turn on the last fallback was rate limited and returned the error.
C16_Witness ==
    /\ turn.pc = "return"
    /\ turn.outcome = "error"
    /\ turn.result = "ratelimit"
    /\ turn.calls = 1
    /\ turn.rlCalls = 1
    /\ lastOp.op = "OnLLMRateLimited"
    /\ lastOp.reason = "fallback_exhausted"

\* C17: a backend call that fails with another error than a rate limit ends the
\* turn with that error at once: no retry, no report to the router, and the
\* router's state and what it persisted stay as they are.
C17_OtherErrorsAbort ==
    [][(/\ turn.pc \in {"chat", "retry"}
        /\ turn'.calls = turn.calls + 1
        /\ turn'.result \in {"error", "cancelled"}) =>
          /\ turn'.pc = "return"
          /\ turn'.outcome = "error"
          /\ turn'.rlCalls = turn.rlCalls
          /\ fs' = fs
          /\ persisted' = persisted
          /\ lastOp' = lastOp]_vars

\* The first call of an iteration on the fallback M1 failed with a backend error.
C17_Witness ==
    /\ turn.pc = "return"
    /\ turn.outcome = "error"
    /\ turn.result = "error"
    /\ turn.calls = 1
    /\ turn.rlCalls = 0
    /\ fs.ActiveModel = M1

\* C18: a tool call that returns an error does not end the turn: its result is
\* appended as a tool-result message with a non-empty text, the other tool calls
\* of the batch are executed, and the loop goes on to the next backend call (or
\* to the end of the loop at the iteration limit).
C18_ToolErrorsAreFedBack ==
    /\ [][(turn.pc = "tools" /\ turn'.pc # "tools") =>
             /\ turn'.pc = "loop"
             /\ turn'.outcome = ""
             /\ turn'.toolMsgs = turn.batch]_vars
    /\ [][(turn.pc = "tools" /\ turn'.toolErrs > turn.toolErrs) =>
             /\ turn'.pc \in {"tools", "loop"}
             /\ turn'.toolMsgs = turn.toolMsgs + 1
             /\ turn'.lastToolMsg # ""
             /\ turn'.outcome = ""]_vars
    /\ [][(turn.pc = "loop" /\ turn.toolErrs > 0 /\ turn'.pc # "loop") =>
             turn'.pc = IF turn.iteration < cfg.MaxToolIterations
                        THEN "chat" ELSE "finish"]_vars

\* The first tool call of a batch of two failed without text for the backend,
\* the second ran, and the loop is about to call the backend again.
C18_Witness ==
    /\ turn.pc = "loop"
    /\ turn.batch = 2
    /\ turn.toolMsgs = 2
    /\ turn.toolErrs = 1
    /\ turn.lastToolMsg = "output"
    /\ turn.iteration < cfg.MaxToolIterations

-----------------------------------------------------------------------------
(* Properties of the cancel table *)

\* C19: a /stop for a session without a registered cancel func is answered with
\* "Nothing running to stop."; Run goes on with the next message, and the table
\* of cancel funcs and the turns stay as they are.
C19_StopWithoutTurn ==
    [][(RunStop /\ Head(inbound).session \notin activeCancel) =>
          /\ <<Head(inbound).session, "Nothing running to stop.">> \in outbound'
          /\ outbound' \ outbound \subseteq
                {<<Head(inbound).session, "Nothing running to stop.">>}
          /\ activeCancel' = activeCancel
          /\ turn' = turn
          /\ run' = "consume"
          /\ ctxDone' = ctxDone]_vars

\* Session A was told that nothing was running, after a turn of session B was
\* answered.
C19_Witness ==
    /\ run = "consume"
    /\ <<"A", "Nothing running to stop.">> \in outbound
    /\ <<"B", "response">> \in outbound
    /\ <<"A", "Stopped.">> \notin outbound

-----------------------------------------------------------------------------
(* Properties of the turns that Run processes *)

\* C21: Run tells a cancelled turn from a failed one: for a turn that returned
\* an error with its context cancelled (by /stop or with the context of Run)
\* nothing is published, and for a turn that returned any other error the error
\* is published to the session.
C21_CancelIsNotAnError ==
    [][(turn.pc = "return" /\ turn'.pc = "none" /\ turn.outcome = "error") =>
          IF msgCtxErr = Canceled
          THEN outbound' = outbound
          ELSE <<turn.session, "error">> \in outbound']_vars

C23_SessionsRunConcurrently ==
    (/\ turn.pc \in {"chat", "retry", "tools"}
     /\ ~ctxDone
     /\ inbound # <<>>
     /\ Head(inbound).session # turn.session
     /\ TrimSpace(Head(inbound).text) # Chars("/stop")) => ENABLED RunStart

-----------------------------------------------------------------------------
(* Properties of the router's operations *)

\* C24: in every reachable state of the router, HandleUserSwitchbackDecision
\* called in Normal or Degraded mode with any text, or in any mode with a text
\* that is no yes/no reply, reports not handled and returns the state as it
\* was, and processMessage goes on to the agent loop; a step of it that reports
\* not handled changes neither the state nor what is persisted.
C24_DecisionOnlyWhenAwaiting ==
    /\ [](\A text \in MessageTexts :
             (fs.Mode # modeAwaitingUserSwitchbk \/ (~isYes(text) /\ ~isNo(text))) =>
                /\ HandleUserSwitchbackDecision(fs, text, now) = [fs |-> fs, out |-> NoDecision]
                /\ afterDecision(HandleUserSwitchbackDecision(fs, text, now).out) = "loop")
    /\ [][(lastOp'.op = "HandleUserSwitchbackDecision" /\ now' = now) =>
             /\ fs.Mode # modeAwaitingUserSwitchbk => ~lastOp'.handled
             /\ ~lastOp'.handled => fs' = fs /\ persisted' = persisted]_vars

\* A message was put to HandleUserSwitchbackDecision in Degraded mode, with a
\* probe success already counted, and was not handled.
C24_Witness ==
    /\ lastOp.op = "HandleUserSwitchbackDecision"
    /\ ~lastOp.handled
    /\ fs.Mode = modeDegraded
    /\ fs.ConsecutiveProbeSuccesses > 0

\* C25: ResolveRoute returns the active model and the switch epoch of the state
\* it is called in, and a step of the turn that calls it (at the head of an
\* iteration, before a retry) changes neither the router's state nor what is
\* persisted: calls with no router event between them return the same pair.
C25_ResolveRouteReadsOnly ==
    /\ [](/\ ResolveRoute(fs).Model = fs.ActiveModel
          /\ ResolveRoute(fs).SwitchEpoch = fs.SwitchEpoch)
    /\ [][(\/ turn.pc = "loop" /\ turn'.pc = "chat"
           \/ turn.pc = "resolve" /\ turn'.pc = "retry") =>
             /\ fs' = fs
             /\ persisted' = persisted
             /\ turn'.model = fs.ActiveModel
             /\ turn'.epoch = fs.SwitchEpoch]_vars
    /\ [][(turn.pc = "loop" /\ turn'.pc = "chat" /\ turn.iteration > 0
             /\ turn.epoch = fs.SwitchEpoch) =>
                (turn'.model = turn.model /\ turn'.epoch = turn.epoch)]_vars

\* The second iteration of a turn resolved the route again, after the retry of
\* the first iteration had resolved it on the fallback M1 at epoch 1.
C25_Witness ==
    /\ turn.pc = "chat"
    /\ turn.iteration = 2
    /\ turn.model = M1
    /\ turn.epoch = 1
    /\ fs.SwitchEpoch = 1

-----------------------------------------------------------------------------
(* Properties of the execution plan *)

\* The steps of the calls of a batch, and the first call of a batch with a step.
StepsOf(toolCalls) == {summarizeToolCallForPlan(toolCalls[i]) : i \in 1..Len(toolCalls)}

FirstWith(toolCalls, step) ==
    SetMin({i \in 1..Len(toolCalls) : summarizeToolCallForPlan(toolCalls[i]) = step})

\* C26: the plan announced for the first batch of a turn is what a second
\* derivation from the same batch gives; it holds every step of the batch's
\* calls exactly once, in the order of the first call with that step, and no
\* other step; read_file(a), read_file(a), exec(cmd) gives two steps.
C26_PlanHasEachStepOnce ==
    [][(~turn.planState.Announced /\ turn'.planState.Announced) =>
          LET toolCalls == turn'.toolCalls
              Bullets == turn'.planState.Bullets
          IN /\ Bullets = buildExecutionPlanBullets(toolCalls)
             /\ \A i, j \in 1..Len(Bullets) : i # j => Bullets[i] # Bullets[j]
             /\ {Bullets[i] : i \in 1..Len(Bullets)} = StepsOf(toolCalls)
             /\ Len(Bullets) = Cardinality(StepsOf(toolCalls))
             /\ \A i, j \in 1..Len(Bullets) :
                   i < j => FirstWith(toolCalls, Bullets[i]) < FirstWith(toolCalls, Bullets[j])
             /\ toolCalls = <<ReadA, ReadA, ExecRg>> => Len(Bullets) = 2]_vars

\* The plan of read_file(a), read_file(a), exec(cmd) was announced.
C26_Witness ==
    /\ turn.pc = "tools"
    /\ turn.toolCalls = <<ReadA, ReadA, ExecRg>>
    /\ turn.planState.Announced
    /\ turn.planState.Bullets = <<"Read a.txt", "Search codebase for relevant entries">>

\* A step of the tool loop: the first of the remaining calls has been handled.
ToolCallStep == turn.pc = "tools" /\ Len(turn'.toolCalls) < Len(turn.toolCalls)

\* C27 as claimed: the first batch makes every tool name of its calls allowed; a
\* later call with a name that is not allowed appends exactly one step to the
\* plan and makes the name allowed; any other call changes neither the steps
\* nor the allowed names.
C27_UnplannedToolAddsOneStep ==
    /\ [][(~turn.planState.Announced /\ turn'.planState.Announced) =>
             \A i \in 1..Len(turn'.toolCalls) :
                toolName(turn'.toolCalls[i]) # "" =>
                   toolName(turn'.toolCalls[i]) \in turn'.planState.Allowed]_vars
    /\ [][ToolCallStep =>
             LET tc == Head(turn.toolCalls)
             IN IF toolName(tc) # "" /\ toolName(tc) \notin turn.planState.Allowed
                THEN /\ turn'.planState.Bullets =
                           Append(turn.planState.Bullets, summarizeToolCallForPlan(tc))
                     /\ turn'.planState.Allowed =
                           turn.planState.Allowed \cup {toolName(tc)}
                ELSE turn'.planState = turn.planState]_vars

\* C27 as amended: the step of the call that is not allowed is appended only
\* while the plan has fewer than maxPlanBullets steps; the update is announced
\* and the name made allowed in both cases.
C27_UnplannedToolAddsOneStepBelowCap ==
    /\ [][(~turn.planState.Announced /\ turn'.planState.Announced) =>
             \A i \in 1..Len(turn'.toolCalls) :
                toolName(turn'.toolCalls[i]) # "" =>
                   toolName(turn'.toolCalls[i]) \in turn'.planState.Allowed]_vars
    /\ [][ToolCallStep =>
             LET tc == Head(turn.toolCalls)
             IN IF toolName(tc) # "" /\ toolName(tc) \notin turn.planState.Allowed
                THEN /\ turn'.planState.Bullets =
                           IF Len(turn.planState.Bullets) < maxPlanBullets
                           THEN Append(turn.planState.Bullets, summarizeToolCallForPlan(tc))
                           ELSE turn.planState.Bullets
                     /\ turn'.planState.Allowed =
                           turn.planState.Allowed \cup {toolName(tc)}
                     /\ turn'.planUpdate = summarizeToolCallForPlan(tc)
                ELSE turn'.planState = turn.planState /\ turn'.planUpdate = ""]_vars

\* After the plan of read_file(a), read_file(a), exec(cmd), a batch of two calls
\* of web_search has been executed: the first call added one step, the second
\* none.
C27_Witness ==
    /\ turn.planState.Bullets = <<"Read a.txt", "Search codebase for relevant entries",
                                  "Search the web for required context">>
    /\ turn.planState.Allowed = {"read_file", "exec", "web_search"}
    /\ turn.iteration = 2
    /\ turn.batch = 2
    /\ turn.toolMsgs = 2
    /\ turn.planUpdate = ""

\* C28: an announced plan has at least one step, whatever the first batch was;
\* the plan is announced by the first response with tool calls, not before, and
\* stays announced for the rest of the turn.
C28_AnnouncedPlanHasSteps ==
    /\ [](turn.planState.Announced => Len(turn.planState.Bullets) > 0)
    /\ [](~turn.planState.Announced => turn.planState = newExecutionPlanState)
    /\ [][(turn.pc = "chat" /\ turn'.pc = "tools") => turn'.planState.Announced]_vars
    /\ [][turn.planState.Announced => turn'.planState.Announced]_vars

\* The plan of a first batch of one call without a name and without arguments.
C28_Witness ==
    /\ turn.planState.Announced
    /\ turn.planState.Bullets = <<"Execute required operation">>
    /\ turn.planState.Allowed = {}
    /\ turn.toolCalls = <<Nameless>>

\* C29: the plan of a turn never has more than maxPlanBullets steps.
C29_PlanWithinCap ==
    Len(turn.planState.Bullets) <= maxPlanBullets

-----------------------------------------------------------------------------
(* Properties of a new failover cycle *)

\* C30: a rate-limit event that moves the route to the next fallback while the
\* router awaits the reply to a switchback prompt reports the switch, makes the
\* mode Degraded and clears the record of the prompt that was sent.
C30_NewCycleForgetsPrompt ==
    [][(/\ lastOp'.op = "OnLLMRateLimited"
        /\ now' = now
        /\ fs.Mode = modeAwaitingUserSwitchbk
        /\ fs'.ActiveModel # fs.ActiveModel) =>
          /\ lastOp'.switched
          /\ fs'.Mode = modeDegraded
          /\ IsZero(fs'.LastSwitchbackPromptAt)]_vars

-----------------------------------------------------------------------------
(* Properties of concurrent turns and of the router's persistence *)

\* C31: with turns running at the same time, at most one switch notification is
\* published for any value of switchEpoch, and lastNoticeByEP never decreases.
C31_OneNoticePerEpoch ==
    /\ [](\A i, j \in 1..Len(notices) : i # j => notices[i] # notices[j])
    /\ [][lastNoticeByEP' >= lastNoticeByEP]_vars

\* Two turns switched the route, both are through notifyFailoverSwitch, and one
\* notification was published.
C31_Witness ==
    /\ fs.SwitchEpoch = 2
    /\ \A id \in CallerIds : callers[id].pc = "resolve"
    /\ Len(notices) = 1
    /\ lastNoticeByEP = 2

C33_ProbeOnlyWhenDegraded ==
    /\ [](ShouldProbe(fs, now) =>
             /\ fs.Mode = modeDegraded
             /\ ~Before(now, fs.HoldUntil)
             /\ ~Before(now, fs.NextProbeAt))
    /\ [](fs.Mode \in {modeNormal, modeAwaitingUserSwitchbk} => ~ShouldProbe(fs, now))
    /\ [][probe'.n > probe.n => ~Before(now, fs.HoldUntil)]_vars

\* C33 amended: ShouldProbe(now) is true only while the active model is a fallback
\* (mode Degraded or AwaitingSwitchback), with now not before holdUntil and not
\* before nextProbeAt; it is false in Normal; no probe starts before holdUntil.
C33_ProbeOnlyOnFallback ==
    /\ [](ShouldProbe(fs, now) =>
             /\ fs.Mode \in {modeDegraded, modeAwaitingUserSwitchbk}
             /\ fs.ActiveModel # primary
             /\ ~Before(now, fs.HoldUntil)
             /\ ~Before(now, fs.NextProbeAt))
    /\ [](fs.Mode = modeNormal => ~ShouldProbe(fs, now))
    /\ [][probe'.n > probe.n =>
             ShouldProbe(fs, now) /\ ~Before(now, fs.HoldUntil)]_vars

\* A probe was started in mode AwaitingSwitchback, a probe interval after the
\* one that reached the threshold.
C33_Witness ==
    /\ lastOp.op = "maybeRunFailoverProbe"
    /\ probe.pc = "chat"
    /\ fs.Mode = modeAwaitingUserSwitchbk
    /\ now = fs.NextProbeAt
    /\ After(now, fs.HoldUntil)

\* C34: consecutiveProbeSuccesses is 0 right after every rate-limit event, one
\* that finds the fallback chain exhausted included, and right after every
\* failed probe result.
C34_CounterZeroAfterRateLimit ==
    [][(/\ now' = now
        /\ \/ lastOp'.op = "OnLLMRateLimited"
           \/ lastOp'.op = "recordProbeResult" /\ ~lastOp'.success) =>
          fs'.ConsecutiveProbeSuccesses = 0]_vars

\* C35: with an active model known, OnLLMSuccess for the primary or for a fallback
\* changes nothing of the route state, in memory or persisted: the mode stays
\* Degraded or AwaitingSwitchback and the active model, the fallback index and
\* the switch epoch stay what they were, however many calls are made.
C35_SuccessChangesNothing ==
    /\ [](fs.ActiveModel # Str0)
    /\ [][(lastOp'.op = "OnLLMSuccess" /\ now' = now) =>
             /\ fs' = fs
             /\ persisted' = persisted
             /\ \A model \in {M0, M1} :
                   OnLLMSuccess(OnLLMSuccess(fs, model).fs, model).fs = fs]_vars

\* A backend call succeeded while the router was awaiting the switchback decision
\* on the second fallback.
C35_Witness ==
    /\ lastOp.op = "OnLLMSuccess"
    /\ fs.Mode = modeAwaitingUserSwitchbk
    /\ fs.ActiveModel = M2
    /\ fs.FallbackIndex = 1
    /\ fs.SwitchEpoch = 2

\* C36: for the last response with tool calls c1..ck the messages hold the
\* assistant message and after it one tool-result message for each call executed
\* so far, in the order of the calls and each with the id of its call; the calls
\* are executed head first, and the turn is at the next backend call or past it
\* only when all k results are there.
C36_ToolResultsInCallOrder ==
    LET k == Len(turn.lastIds)
        done == k - Len(turn.ids)
        n == Len(turn.messages)
    IN /\ Len(turn.ids) = Len(turn.toolCalls)
       /\ k > 0 =>
             /\ n >= done + 1
             /\ turn.messages[n - done] = assistantMsg(turn.lastIds)
             /\ \A j \in 1..done :
                   turn.messages[n - done + j] = toolResultMsg(turn.lastIds[j])
             /\ turn.ids = SubSeq(turn.lastIds, done + 1, k)
             /\ (turn.pc = "tools") <=> (done < k)
       /\ \A i, j \in 1..Len(turn.messages) :
             (i # j /\ turn.messages[i].Role = "tool") =>
                 turn.messages[i].ToolCallID # turn.messages[j].ToolCallID

\* The second backend call of a turn is about to be made after a response with
\* three tool calls: the messages are the assistant message and three results.
C36_Witness ==
    /\ turn.pc = "chat"
    /\ turn.iteration = 2
    /\ Len(turn.lastIds) = 3
    /\ Len(turn.messages) = 4
    /\ turn.messages[4] = toolResultMsg(<<1, 3>>)

\* The latest of the times the hints of a rate-limit error give: Retry-After
\* counts from t, the reset hints are times; ZeroTime without a hint.
ResumeTime(t, err) ==
    SetMax({ZeroTime}
           \cup {t + err.RetryAfter * Second : x \in {err.RetryAfter} \ {NoHint}}
           \cup ({err.RateLimitRequestsReset, err.RateLimitTokensReset} \ {NoHint}))

\* C37: a rate-limit event at time t that switches leaves holdUntil at the later
\* of t + the configured hold and the resume time of the error's hints, and
\* nextProbeAt equal to holdUntil; holdUntil is never before t + hold.
C37_HoldUntilIsTheLaterTime ==
    /\ [](\A err \in HintErrs :
             LET r == OnLLMRateLimited(fs, fs.ActiveModel, err, now)
             IN r.evt.Switched =>
                   /\ r.fs.HoldUntil = maxInt(now + holdDur, ResumeTime(now, err))
                   /\ r.fs.NextProbeAt = r.fs.HoldUntil
                   /\ r.fs.HoldUntil >= now + holdDur)
    /\ [][(lastOp'.op = "OnLLMRateLimited" /\ lastOp'.switched /\ now' = now) =>
             /\ fs'.HoldUntil \in {maxInt(now + holdDur, ResumeTime(now, err)) :
                                    err \in RateLimitErrs}
             /\ fs'.NextProbeAt = fs'.HoldUntil
             /\ fs'.HoldUntil >= now + holdDur]_vars

\* The second fallback became active by a rate-limit event at 61 s whose
\* Retry-After hint of 90 s ends after the configured hold of one minute.
C37_Witness ==
    /\ lastOp.op = "OnLLMRateLimited"
    /\ lastOp.switched
    /\ fs.ActiveModel = M2
    /\ now = StartTime + Minute
    /\ fs.HoldUntil = now + HintSeconds * Second
    /\ fs.NextProbeAt = fs.HoldUntil

\* The fields of the route state that a restart has to keep.
RouteFields(f) ==
    <<f.Mode, f.ActiveModel, f.FallbackIndex, f.SwitchEpoch, f.HoldUntil,
      f.NextProbeAt, f.ConsecutiveProbeSuccesses>>

\* C38: the router constructed after a restart with the same configuration has the
\* mode, active model, fallback index, switch epoch, holdUntil, nextProbeAt and
\* probe counter that were persisted last, in whichever mode it restarts.
C38_RestartKeepsRouteState ==
    [][(lastOp'.op = "NewManager" /\ now' = now) =>
          /\ RouteFields(fs') = RouteFields(persisted)
          /\ RouteFields(fs') = RouteFields(fs)
          /\ persisted' = fs'
          /\ cfg' = cfg /\ fallbacks' = fallbacks]_vars

\* The router restarted while awaiting the switchback decision on the first
\* fallback (fallback index 0), a probe result recorded before.
C38_Witness ==
    /\ lastOp.op = "NewManager"
    /\ fs.Mode = modeAwaitingUserSwitchbk
    /\ fs.ActiveModel = M1
    /\ fs.FallbackIndex = 0
    /\ fs.ConsecutiveProbeSuccesses = 1
    /\ fs.SwitchEpoch = 1
    /\ fs.NextProbeAt > fs.HoldUntil

\* C39: in every state of the router the fallback index is unset or a position
\* of the fallback chain, the active model is the primary or a member of the
\* chain, and an active model other than the primary is the chain's model at
\* the fallback index.
C39_IndexPointsAtActiveModel ==
    /\ fs.FallbackIndex = NoIndex \/ fs.FallbackIndex \in 0..(Len(fallbacks) - 1)
    /\ fs.ActiveModel = primary \/ \E i \in 1..Len(fallbacks) : fallbacks[i] = fs.ActiveModel
    /\ fs.ActiveModel # primary =>
          /\ fs.FallbackIndex \in 0..(Len(fallbacks) - 1)
          /\ fallbacks[fs.FallbackIndex + 1] = fs.ActiveModel

\* C40: a rate-limit report of a turn whose call was routed before the latest
\* switch (the model it called is no longer the active one and its route epoch
\* is older than the switch epoch) does not move the router: of two turns that
\* called the same model and both report its rate limit, only the first
\* advances the fallback chain.
C40_StaleReportDoesNotAdvance ==
    [][\A id \in CallerIds :
          (/\ callers[id].pc = "chat"
           /\ callers'[id].pc # "chat"
           /\ callers[id].model # fs.ActiveModel
           /\ callers[id].epoch < fs.SwitchEpoch) =>
              /\ fs'.ActiveModel = fs.ActiveModel
              /\ fs'.FallbackIndex = fs.FallbackIndex
              /\ fs'.SwitchEpoch = fs.SwitchEpoch]_vars
====
